---- MODULE Spec2Model ----
(***************************************************************************)
(* A model of the x402 seller middleware (package x402): the payment gate  *)
(* (Middleware, UnifiedPaymentMiddleware), the pre-authorized budget       *)
(* store, the session store and middleware, and the idempotent replay of   *)
(* AIFirstMiddleware.                                                      *)
(*                                                                         *)
(* Strings are sequences of symbols: "/health" ++ "z" is                   *)
(* <<"/health", "z">>, so that prefix tests and trimming are computed as   *)
(* strings.HasPrefix and strings.TrimPrefix compute them.                  *)
(***************************************************************************)
EXTENDS Integers, Sequences, FiniteSets, TLC

VARIABLES
    gCfg,       \* Middleware: the Config the middleware was built with
    gReq,       \* Middleware: the last request served
    gResp,      \* Middleware: what the middleware did with it
    uCfg,       \* UnifiedPaymentMiddleware: registered rails
    uReq,       \* UnifiedPaymentMiddleware: the last request served
    uResp,      \* UnifiedPaymentMiddleware: what the middleware did with it
    budgets,    \* InMemoryPreAuthStore.budgets: budget id -> the budget object the
                \* map points to (NoBudget: no entry)
    byAgent,    \* InMemoryPreAuthStore.byAgent: agent id -> budget id ("": no entry)
    bLock,      \* InMemoryPreAuthStore.mu: the process holding the write lock, or 0
    pc,         \* per request task: where it stands in its operation
    loc,        \* per request task: the operation's local variables
    last,       \* the outcome of the operation that returned last
    sessions,   \* InMemorySessionStore.sessions: session id -> the session
                \* object the map points to (NoSession: no entry)
    sNow,       \* time.Now() as the session code reads it
    sPc,        \* per request task of SessionMiddleware: where it stands
    sLoc,       \* per request task of SessionMiddleware: its local variables
    sLog,       \* the responses to the requests that carried the id of a
                \* stored session, in the order they were written
    sLast,      \* the response SessionMiddleware wrote last
    aCfg,       \* AIFirstConfig: the feature flags and the idempotency TTL
    idem,       \* InMemoryIdempotencyStore.records: key -> record (NoRecord: no
                \* entry)
    aNow,       \* time.Now() as AIFirstMiddleware and its stores read it
    aStarted,   \* how many requests AIFirstMiddleware has taken up
    aLog,       \* the requests AIFirstMiddleware has answered, in the order
                \* they were completed
    mCfg,       \* the capacity given to NewInMemoryMeteringStore, and whether
                \* MeteringConfig.Store is set
    metrics,    \* InMemoryMeteringStore.metrics
    mLock,      \* InMemoryMeteringStore.mu: 0, or the task that holds it
    mPc,        \* per task of the metering layer: where it stands
    mLoc,       \* per task of the metering layer: its local variables
    mStarted,   \* how many requests and store calls the metering layer has
                \* taken up
    mOrder,     \* every metric appended to the store, in the order appended
    mEvicted,   \* every metric evicted from the store, in the order evicted
    mDone,      \* the requests MeteringMiddleware has returned from
    mLast,      \* the report GetMetrics returned last
    apCfg,      \* AIAgentPaymentConfig: whether PreAuthStore is set
    apReq,      \* per task: its request to AIAgentPaymentMiddleware
    apResp,     \* the response written last, and the request it answers
    msCfg,      \* MultiSchemeConfig: the exempt paths and the scheme types
                \* registered in its SchemeRegistry
    msReq,      \* the request MultiSchemeMiddleware served
    msResp,     \* what it did with that request
    schemes,    \* SchemeRegistry.schemes: the scheme types that have an entry
    srLock,     \* SchemeRegistry.mu: 0, or the task holding the write lock
    rails,      \* RailRegistry.rails: the rail ids that have an entry
    regPc,      \* per task: where it stands in a Register call
    regLoc,     \* per task: the scheme type or rail id it registers
    regLast,    \* the outcome of the registry read that returned last
    eCfg,       \* the EdgeConfig of the edge handler
    eReq,       \* the request the edge handler served
    eResp,      \* and what it answered
    ssObjs,     \* the Session values that were allocated
    ssMap,      \* s.sessions: the *Session stored under each id
    ssPc,       \* where each request of the session store is
    ssLoc,      \* and the *Session it holds
    mcpObjs,    \* the Budget values of the MCP server
    mcpMap,     \* s.budgets["default"]
    mcpPc,      \* where each tool call of the MCP server is
    mcpLoc,     \* its *Budget, the cost it was quoted, its result
    bPosts      \* POSTs of AIBudgetHandler that created a budget

gateVars == <<gCfg, gReq, gResp>>
uniVars == <<uCfg, uReq, uResp>>
storeVars == <<budgets, byAgent, bLock>>
procVars == <<pc, loc, last>>
sessVars == <<sessions, sNow, sPc, sLoc, sLog, sLast>>
aiVars == <<aCfg, idem, aNow, aStarted, aLog>>
meterVars ==
    <<mCfg, metrics, mLock, mPc, mLoc, mStarted, mOrder, mEvicted, mDone, mLast>>
agentPayVars == <<apCfg, apReq, apResp>>
multiVars == <<msCfg, msReq, msResp>>
regVars == <<schemes, srLock, rails, regPc, regLoc, regLast>>
edgeVars == <<eCfg, eReq, eResp>>
sessStoreVars == <<ssObjs, ssMap, ssPc, ssLoc>>
mcpVars == <<mcpObjs, mcpMap, mcpPc, mcpLoc>>
postVars == <<bPosts>>
tailVars == <<edgeVars, sessStoreVars, mcpVars, postVars>>
lateVars == <<regVars, tailVars>>
moreVars == <<meterVars, agentPayVars, multiVars, lateVars>>
coreVars == <<gateVars, uniVars, storeVars, procVars, sessVars, aiVars>>
nonStoreVars == <<gateVars, uniVars, sessVars, aiVars, moreVars>>
vars == <<coreVars, moreVars>>

----------------------------------------------------------------------------
(* Strings *)

EmptyString == <<>>

HasPrefix(s, prefix) ==
    /\ Len(prefix) <= Len(s)
    /\ SubSeq(s, 1, Len(prefix)) = prefix

TrimPrefix(s, prefix) ==
    IF HasPrefix(s, prefix) THEN SubSeq(s, Len(prefix) + 1, Len(s)) ELSE s

Min(S) == CHOOSE x \in S : \A y \in S : x <= y

StatusOK == 200
StatusCreated == 201
StatusBadRequest == 400
StatusUnauthorized == 401
StatusPaymentRequired == 402
StatusNotFound == 404

----------------------------------------------------------------------------
(* Middleware (the single-scheme payment gate) *)

\* Request paths: "/health", "/healthz", "/api/data", "/api/public/x".
GatePaths ==
    { <<"/health">>, <<"/health", "z">>, <<"/api", "/data">>,
      <<"/api", "/public", "/x">> }

\* Values of a token-carrying header or query parameter.
GateTokens == { EmptyString, <<"valid_", "x">>, <<"bad">> }

\* Values of the Authorization header.
GateAuthHeaders ==
    { EmptyString,
      <<"Bearer", " ", "valid_", "x">>,
      <<"Bearer", " ", "bad">>,
      <<"Bearer", " ">>,
      <<"Token", " ", "valid_", "x">>,
      <<"Basic", " ", "valid_", "x">> }

GateConfigs ==
    [ ExemptPaths : { <<>>, << <<"/health">> >>,
                      << <<"/health">>, <<"/api", "/public">> >> },
      AcceptedMethods : { << <<"Bearer">> >>, << <<"Bearer">>, <<"Token">> >> },
      CustomVerifier : BOOLEAN ]

GateRequests ==
    [ path : GatePaths, sig : GateTokens, xpay : GateTokens,
      auth : GateAuthHeaders, xtok : GateTokens, query : GateTokens ]

\* What a configured PaymentVerifier may return: (valid, err).
VerifierOutcomes == [ valid : BOOLEAN, err : BOOLEAN ]

isExemptPath_ExactMatch(path, exemptPaths) ==
    \E i \in 1..Len(exemptPaths) : path = exemptPaths[i]

\* part_004:134-141
isExemptPath(path, exemptPaths) ==
    \E i \in 1..Len(exemptPaths) : HasPrefix(path, exemptPaths[i])

extractPaymentToken(r, acceptedMethods) ==
    IF r.sig # EmptyString THEN r.sig
    ELSE IF r.xpay # EmptyString THEN r.xpay
    ELSE LET matching == { i \in 1..Len(acceptedMethods) :
                             HasPrefix(r.auth, acceptedMethods[i] \o <<" ">>) }
         IN  IF r.auth # EmptyString /\ matching # {}
             THEN TrimPrefix(r.auth, acceptedMethods[Min(matching)] \o <<" ">>)
             ELSE IF r.xtok # EmptyString THEN r.xtok
             ELSE r.query

verifyPaymentToken(token, config, outcome) ==
    IF config.CustomVerifier THEN outcome
    ELSE [ valid |-> HasPrefix(token, <<"valid_">>), err |-> FALSE ]

TokenRejected_ErrIgnored(v) == ~v.valid

\* part_004:114  if err != nil || !valid
TokenRejected(v) == v.err \/ ~v.valid

NoGateResponse ==
    [ served |-> FALSE, status |-> 0, forwarded |-> FALSE,
      token |-> EmptyString, verifierCalled |-> FALSE,
      verdict |-> [ valid |-> FALSE, err |-> FALSE ], verifiedHeader |-> FALSE ]

Middleware(r, config, outcome) ==
    IF isExemptPath(r.path, config.ExemptPaths)
    THEN [ NoGateResponse EXCEPT !.served = TRUE, !.status = StatusOK,
                                 !.forwarded = TRUE ]
    ELSE LET token == extractPaymentToken(r, config.AcceptedMethods)
             v == verifyPaymentToken(token, config, outcome)
         IN  IF token = EmptyString
             THEN [ NoGateResponse EXCEPT !.served = TRUE,
                                          !.status = StatusPaymentRequired ]
             ELSE IF TokenRejected(v)
             THEN [ NoGateResponse EXCEPT !.served = TRUE,
                                          !.status = StatusPaymentRequired,
                                          !.token = token,
                                          !.verifierCalled = TRUE,
                                          !.verdict = v ]
             ELSE [ NoGateResponse EXCEPT !.served = TRUE,
                                          !.status = StatusOK,
                                          !.forwarded = TRUE,
                                          !.token = token,
                                          !.verifierCalled = TRUE,
                                          !.verdict = v,
                                          !.verifiedHeader = TRUE ]

NoGateRequest ==
    [ path |-> EmptyString, sig |-> EmptyString, xpay |-> EmptyString,
      auth |-> EmptyString, xtok |-> EmptyString, query |-> EmptyString ]

DefaultGateConfig ==
    [ ExemptPaths |-> <<>>, AcceptedMethods |-> << <<"Bearer">> >>,
      CustomVerifier |-> FALSE ]

\* The handler keeps no state between requests: one request per middleware
\* instance shows all it can do.
MiddlewareServe ==
    /\ ~gResp.served
    /\ \E r \in GateRequests, outcome \in VerifierOutcomes :
          /\ gReq' = r
          /\ gResp' = Middleware(r, gCfg, outcome)
    /\ UNCHANGED <<gCfg, uniVars, storeVars, procVars, sessVars, aiVars,
                   moreVars>>

----------------------------------------------------------------------------
(* UnifiedPaymentMiddleware (the multi-rail gate), with the two rails it  *)
(* registers: StripeRail and EVMCryptoRail                                 *)

Rep(c, n) == [ i \in 1..n |-> c ]

\* EVMCryptoRail.VerifyPayment uses req.PaymentPayload[:16] as the payment id.
PaymentIDLen == 16

\* UnifiedPaymentConfig.PricePerRequest and Currency of the modelled gate.
UniPricePerRequest == 100
UniCurrency == "USD"

UniPaths == { <<"/health">>, <<"/api", "/data">> }
UniExemptPaths == << <<"/health">> >>

\* Crypto payloads (PAYMENT-SIGNATURE, X-PAYMENT): empty, shorter than a
\* payment id, exactly as long, longer.
UniPayloads ==
    { EmptyString, Rep("x", 3), Rep("x", PaymentIDLen), Rep("x", PaymentIDLen + 1) }

UniIntentIDs == { EmptyString, <<"pi_1">> }

NoProof == [ Rail |-> "", Payload |-> EmptyString, PaymentIntentID |-> EmptyString ]

\* Values of the X-PAYMENT-PROOF header: absent, not base64, base64 of
\* something that is not JSON, and base64 JSON of a PaymentProof.
UniProofHeaders ==
    { [ present |-> FALSE, base64 |-> FALSE, json |-> FALSE, proof |-> NoProof ],
      [ present |-> TRUE, base64 |-> FALSE, json |-> FALSE, proof |-> NoProof ],
      [ present |-> TRUE, base64 |-> TRUE, json |-> FALSE, proof |-> NoProof ] }
    \cup
    { [ present |-> TRUE, base64 |-> TRUE, json |-> TRUE, proof |-> pr ] :
        pr \in { [ Rail |-> "stripe", Payload |-> EmptyString,
                   PaymentIntentID |-> <<"pi_2">> ],
                 [ Rail |-> "evm-crypto", Payload |-> Rep("y", PaymentIDLen),
                   PaymentIntentID |-> EmptyString ],
                 [ Rail |-> "ach", Payload |-> EmptyString,
                   PaymentIntentID |-> EmptyString ] } }

UniRequests ==
    [ path : UniPaths, xproof : UniProofHeaders, sig : UniPayloads,
      xpay : { EmptyString, Rep("z", PaymentIDLen) },
      stripePI : UniIntentIDs, queryPI : UniIntentIDs ]

\* The rails a gate may have registered (RailRegistry.Register).
UniConfigs == SUBSET { "stripe", "evm-crypto" }

\* RailRegistry.Get
RailRegistered(registry, id) == id \in registry

extractPaymentProof_LegacyFirst(r) ==
    IF r.xproof.present /\ r.xproof.base64 /\ r.xproof.json
    THEN [ found |-> TRUE, proof |-> r.xproof.proof ]
    ELSE IF r.xpay # EmptyString
    THEN [ found |-> TRUE,
           proof |-> [ NoProof EXCEPT !.Rail = "evm-crypto", !.Payload = r.xpay ] ]
    ELSE IF r.sig # EmptyString
    THEN [ found |-> TRUE,
           proof |-> [ NoProof EXCEPT !.Rail = "evm-crypto", !.Payload = r.sig ] ]
    ELSE IF r.stripePI # EmptyString
    THEN [ found |-> TRUE,
           proof |-> [ NoProof EXCEPT !.Rail = "stripe",
                                      !.PaymentIntentID = r.stripePI ] ]
    ELSE IF r.queryPI # EmptyString
    THEN [ found |-> TRUE,
           proof |-> [ NoProof EXCEPT !.Rail = "stripe",
                                      !.PaymentIntentID = r.queryPI ] ]
    ELSE [ found |-> FALSE, proof |-> NoProof ]

\* extractPaymentProof: the proof, or found = FALSE for nil.
extractPaymentProof(r) ==
    IF r.xproof.present /\ r.xproof.base64 /\ r.xproof.json
    THEN [ found |-> TRUE, proof |-> r.xproof.proof ]
    ELSE IF r.sig # EmptyString
    THEN [ found |-> TRUE,
           proof |-> [ NoProof EXCEPT !.Rail = "evm-crypto", !.Payload = r.sig ] ]
    ELSE IF r.xpay # EmptyString
    THEN [ found |-> TRUE,
           proof |-> [ NoProof EXCEPT !.Rail = "evm-crypto", !.Payload = r.xpay ] ]
    ELSE IF r.stripePI # EmptyString
    THEN [ found |-> TRUE,
           proof |-> [ NoProof EXCEPT !.Rail = "stripe",
                                      !.PaymentIntentID = r.stripePI ] ]
    ELSE IF r.queryPI # EmptyString
    THEN [ found |-> TRUE,
           proof |-> [ NoProof EXCEPT !.Rail = "stripe",
                                      !.PaymentIntentID = r.queryPI ] ]
    ELSE [ found |-> FALSE, proof |-> NoProof ]

\* What the facilitator may answer to /verify and /settle, and Stripe to a
\* payment-intent retrieval and capture.
\* id: the "id" of the payment intent in Stripe's JSON body, empty when the
\* body has none.
NoIntent == [ id |-> EmptyString, status |-> "", amount |-> 0, currency |-> "" ]
StripeIntents ==
    [ id : { EmptyString, <<"pi_1">> },
      status : { "succeeded", "requires_capture", "processing" },
      amount : { 50, 100 }, currency : { "usd", "eur" } ]
FacilitatorVerifyReplies ==
    [ http : { "transport_error", "bad_json" }, valid : { FALSE }, intent : { NoIntent } ]
    \cup [ http : { "ok" }, valid : BOOLEAN, intent : { NoIntent } ]
FacilitatorSettleReplies ==
    [ http : { "transport_error", "bad_json" }, success : { FALSE }, status : { "" } ]
    \cup [ http : { "ok" }, success : BOOLEAN, status : { "" } ]
StripeVerifyReplies ==
    [ http : { "transport_error", "non_200", "bad_json" }, valid : { FALSE },
      intent : { NoIntent } ]
    \cup [ http : { "ok" }, valid : { FALSE }, intent : StripeIntents ]
StripeCaptureReplies ==
    [ http : { "transport_error", "non_200", "bad_json" }, success : { FALSE },
      status : { "" } ]
    \cup [ http : { "ok" }, success : { FALSE },
           status : { "succeeded", "requires_capture" } ]

ToUpper(c) == IF c = "usd" THEN "USD" ELSE IF c = "eur" THEN "EUR" ELSE c
EqualFold(a, b) == ToUpper(a) = ToUpper(b)

NoVerification ==
    [ outcome |-> "none", Valid |-> FALSE, RequiresCapture |-> FALSE,
      PaymentID |-> EmptyString ]
NoCapture == [ outcome |-> "none", Success |-> FALSE ]

\* EVMCryptoRail.VerifyPayment; outcome "panic" is the slice out of range of
\* PaymentPayload[:16].
EVMVerifyPayment(payload, reply) ==
    IF reply.http # "ok"
    THEN [ NoVerification EXCEPT !.outcome = "error" ]
    ELSE IF Len(payload) < PaymentIDLen
    THEN [ NoVerification EXCEPT !.outcome = "panic" ]
    ELSE [ outcome |-> "ok", Valid |-> reply.valid, RequiresCapture |-> TRUE,
           PaymentID |-> SubSeq(payload, 1, PaymentIDLen) ]

\* StripeRail.VerifyPayment: intentID names the payment intent that is
\* retrieved; the PaymentID of the result is the id of the body Stripe sent.
StripeVerifyPayment(intentID, reply) ==
    IF reply.http # "ok"
    THEN [ NoVerification EXCEPT !.outcome = "error" ]
    ELSE [ outcome |-> "ok",
           Valid |-> /\ reply.intent.status = "succeeded"
                     /\ reply.intent.amount >= UniPricePerRequest
                     /\ EqualFold(reply.intent.currency, UniCurrency),
           RequiresCapture |-> reply.intent.status = "requires_capture",
           PaymentID |-> reply.intent.id ]

\* EVMCryptoRail.CapturePayment
EVMCapturePayment(reply) ==
    IF reply.http # "ok"
    THEN [ NoCapture EXCEPT !.outcome = "error" ]
    ELSE [ outcome |-> "ok", Success |-> reply.success ]

\* StripeRail.CapturePayment
StripeCapturePayment(reply) ==
    IF reply.http # "ok"
    THEN [ NoCapture EXCEPT !.outcome = "error" ]
    ELSE [ outcome |-> "ok", Success |-> reply.status = "succeeded" ]

VerifyPayment(proof, reply) ==
    IF proof.Rail = "stripe"
    THEN StripeVerifyPayment(proof.PaymentIntentID, reply)
    ELSE EVMVerifyPayment(proof.Payload, reply)

CapturePayment(rail, reply) ==
    IF rail = "stripe" THEN StripeCapturePayment(reply) ELSE EVMCapturePayment(reply)

VerificationFailed(v) == v.outcome = "error" \/ ~v.Valid

CaptureFailed_SuccessIgnored(c) == c.outcome = "error"

\* unified_middleware.go:215  if err != nil || !capture.Success
CaptureFailed(c) == c.outcome = "error" \/ ~c.Success

NoUniResponse ==
    [ served |-> FALSE, status |-> 0, forwarded |-> FALSE, panicked |-> FALSE,
      calls |-> <<>>, rail |-> "", proof |-> NoProof,
      verification |-> NoVerification, capture |-> NoCapture ]

\* The handler of UnifiedPaymentMiddleware.  calls lists, in order, the
\* collaborators the handler invoked.
UnifiedPaymentMiddleware(r, registry, verifyReply, captureReply) ==
    IF isExemptPath(r.path, UniExemptPaths)
    THEN [ NoUniResponse EXCEPT !.served = TRUE, !.status = StatusOK,
                                !.forwarded = TRUE, !.calls = <<"next">> ]
    ELSE
    LET found == extractPaymentProof(r)
        proof == found.proof
        v == VerifyPayment(proof, verifyReply)
        c == CapturePayment(proof.Rail, captureReply)
        Rejected(calls, vv, cc) ==
            [ NoUniResponse EXCEPT !.served = TRUE,
                                   !.status = StatusPaymentRequired,
                                   !.calls = calls \o <<"sendPaymentOptions">>,
                                   !.rail = proof.Rail, !.proof = proof,
                                   !.verification = vv, !.capture = cc ]
    IN  IF ~found.found
        THEN [ Rejected(<<>>, NoVerification, NoCapture) EXCEPT !.rail = "" ]
        ELSE IF ~RailRegistered(registry, proof.Rail)
        THEN Rejected(<<>>, NoVerification, NoCapture)
        ELSE IF v.outcome = "panic"
        THEN [ NoUniResponse EXCEPT !.served = TRUE, !.panicked = TRUE,
                                    !.calls = <<"VerifyPayment">>,
                                    !.rail = proof.Rail, !.proof = proof,
                                    !.verification = v ]
        ELSE IF VerificationFailed(v)
        THEN Rejected(<<"VerifyPayment">>, v, NoCapture)
        ELSE IF v.RequiresCapture /\ CaptureFailed(c)
        THEN Rejected(<<"VerifyPayment", "CapturePayment">>, v, c)
        ELSE [ NoUniResponse EXCEPT
                 !.served = TRUE, !.status = StatusOK, !.forwarded = TRUE,
                 !.calls = IF v.RequiresCapture
                           THEN <<"VerifyPayment", "CapturePayment", "next">>
                           ELSE <<"VerifyPayment", "next">>,
                 !.rail = proof.Rail, !.proof = proof, !.verification = v,
                 !.capture = IF v.RequiresCapture THEN c ELSE NoCapture ]

NoUniRequest ==
    [ path |-> EmptyString,
      xproof |-> [ present |-> FALSE, base64 |-> FALSE, json |-> FALSE,
                   proof |-> NoProof ],
      sig |-> EmptyString, xpay |-> EmptyString, stripePI |-> EmptyString,
      queryPI |-> EmptyString ]

\* One request served by the gate; the replies of the external services are
\* those of the rail the proof names.
UnifiedServe ==
    /\ ~uResp.served
    /\ \E r \in UniRequests :
         LET rail == extractPaymentProof(r).proof.Rail
         IN  \E vr \in (IF rail = "stripe" THEN StripeVerifyReplies
                        ELSE FacilitatorVerifyReplies),
                cr \in (IF rail = "stripe" THEN StripeCaptureReplies
                        ELSE FacilitatorSettleReplies) :
                  /\ uReq' = r
                  /\ uResp' = UnifiedPaymentMiddleware(r, uCfg, vr, cr)
    /\ UNCHANGED <<uCfg, gateVars, storeVars, procVars, sessVars, aiVars,
                   moreVars>>

----------------------------------------------------------------------------
(* InMemoryPreAuthStore and AIBudgetHandler.  Request tasks run              *)
(* concurrently; a store operation holds the store's mutex for its whole    *)
(* body, and what a handler does with a *PreAuthBudget it got from the      *)
(* store happens outside the mutex.                                         *)
(*                                                                          *)
(* Every write to a budget object goes through the map entry of its id, so  *)
(* an object the map no longer points to (its id was created again, or      *)
(* deleted) never changes again.  A *PreAuthBudget held by a task is        *)
(* therefore the id of the map entry while the map still points to the      *)
(* object, and a copy of the object from the moment it was detached.        *)

\* Concurrent request tasks.
Procs == { 1, 2 }

\* A deduct or refund is not issued once remaining would leave
\* MinRemaining .. MaxRemaining, and a deduct not once the request count
\* reached MaxRequestCount.
MaxRemaining == 100
MaxOverdraft == 40
MinRemaining == 0 - MaxOverdraft
MaxRequestCount == 2

NoID == ""
\* generateBudgetID returns "budget_" and the hex of 16 zero bytes.
GeneratedBudgetID == "budget_00000000000000000000000000000000"
BudgetIDs == { GeneratedBudgetID, "b1" }
AgentIDs == { "agent_1", "agent_2" }
\* The agent of the runs in which one agent's requests are followed.
OneAgent == { "agent_1" }
\* The budget of a POST and the amount of a deduct or refund are int64
\* values that the code takes as they come, the negative ones included.
BudgetTotals == { -40, 100 }
Amounts == { -40, 0, 40, 60 }
\* The values of S that a price or the total of a purchased budget takes.
NonNegative(S) == { x \in S : x >= 0 }

NoBudget ==
    [ ID |-> NoID, AgentID |-> NoID, TotalBudget |-> 0, Remaining |-> 0,
      TotalSpent |-> 0, RequestCount |-> 0 ]

\* A *PreAuthBudget.
NilBudget == [ id |-> NoID, detached |-> FALSE, copy |-> NoBudget ]
PointerTo(id) == [ id |-> id, detached |-> FALSE, copy |-> NoBudget ]
Deref(ptr) == IF ptr.detached THEN ptr.copy ELSE budgets[ptr.id]

\* AIFirstMiddleware's local variables.  had: a budget of the request's
\* agent was in the store when GetByAgentID ran; charged: what store.Deduct
\* took for the request; from: the agent of the budget it took it from.
NoAIRequest ==
    [ agent |-> NoID, key |-> "", req |-> 0, at |-> 0, status |-> 0,
      recorded |-> 0, body |-> "", sent |-> <<>>, kept |-> <<>>, had |-> FALSE,
      charged |-> 0, from |-> NoID ]

\* ret: where the task goes on when store.Deduct has returned nil; created:
\* the budget being encoded is the one the handler's POST has just created;
\* calls: the calls AIAgentPaymentMiddleware has made for its request.
NoLocals ==
    [ id |-> NoID, amount |-> 0, budget |-> NilBudget, rem |-> 0, spent |-> 0,
      cand |-> {}, ret |-> "idle", created |-> FALSE, calls |-> <<>>,
      ai |-> NoAIRequest ]
\* id, agent: the budget a Delete was called for, and the agent of the
\* record it found.
NoResult ==
    [ op |-> "", err |-> "", status |-> 0, obs |-> <<>>, cand |-> {},
      id |-> NoID, agent |-> NoID ]

generateBudgetID == GeneratedBudgetID

\* The map entry of id is replaced or removed: the tasks holding the object
\* keep it.
Detach(l, id) ==
    [ q \in Procs |->
        IF l[q].budget.id = id /\ ~l[q].budget.detached
        THEN [ l[q] EXCEPT !.budget.detached = TRUE, !.budget.copy = budgets[id] ]
        ELSE l[q] ]

\* The three fields a deduct updates.
Snapshot(b) == <<b.Remaining, b.TotalSpent, b.RequestCount>>

\* Does the snapshot c agree with the fields the encoder at position at has
\* read so far?
AgreesWithRead(c, at, l) ==
    /\ at \in { "encode_spent", "encode_count" } => c[1] = l.rem
    /\ at = "encode_count" => c[2] = l.spent

\* History variable of the handler of a GET while it encodes: cand holds the values the budget
\* object held at a moment since store.Get returned at which no writer was
\* inside the store, as far as they agree with the fields read so far.  Here a
\* writer returns, leaving the object of id as b.
NoteCommit(l, id, b) ==
    [ q \in Procs |->
        IF pc[q] \in { "encode_remaining", "encode_spent", "encode_count" }
           /\ ~l[q].created
           /\ l[q].budget.id = id /\ ~l[q].budget.detached
           /\ AgreesWithRead(Snapshot(b), pc[q], l[q])
        THEN [ l[q] EXCEPT !.cand = @ \cup { Snapshot(b) } ]
        ELSE l[q] ]

InsufficientBudget_AgainstTotal(budget, amount) == budget.TotalBudget < amount

\* middleware.go:540  if budget.Remaining < amount
InsufficientBudget(budget, amount) == budget.Remaining < amount

\* InMemoryPreAuthStore.Create
StoreCreate(p, id, agent, total) ==
    /\ pc[p] = "idle" /\ bLock = 0
    /\ LET bid == IF id = NoID THEN generateBudgetID ELSE id
           b == [ ID |-> bid, AgentID |-> agent, TotalBudget |-> total,
                  Remaining |-> total, TotalSpent |-> 0, RequestCount |-> 0 ]
       IN  /\ budgets' = [ budgets EXCEPT ![bid] = b ]
           /\ byAgent' = IF agent # NoID THEN [ byAgent EXCEPT ![agent] = bid ]
                         ELSE byAgent
           /\ loc' = Detach(loc, bid)
           /\ last' = [ NoResult EXCEPT !.op = "Create" ]
    /\ UNCHANGED <<bLock, pc, nonStoreVars>>

\* InMemoryPreAuthStore.Deduct up to budget.Remaining -= amount; the mutex
\* stays held when the budget is found and sufficient.
DeductBegin(p, id, amount) ==
    /\ pc[p] = "idle" /\ bLock = 0
    /\ IF budgets[id] = NoBudget
       THEN /\ last' = [ NoResult EXCEPT !.op = "Deduct",
                                         !.err = "budget not found" ]
            /\ UNCHANGED <<budgets, bLock, pc, loc>>
       ELSE IF InsufficientBudget(budgets[id], amount)
       THEN /\ last' = [ NoResult EXCEPT !.op = "Deduct",
                                         !.err = "insufficient budget" ]
            /\ UNCHANGED <<budgets, bLock, pc, loc>>
       ELSE /\ budgets[id].RequestCount < MaxRequestCount
            /\ budgets[id].Remaining - amount <= MaxRemaining
            /\ budgets' = [ budgets EXCEPT ![id].Remaining = @ - amount ]
            /\ bLock' = p
            /\ pc' = [ pc EXCEPT ![p] = "deduct_spent" ]
            /\ loc' = [ loc EXCEPT ![p] =
                          [ NoLocals EXCEPT !.id = id, !.amount = amount ] ]
            /\ UNCHANGED last
    /\ UNCHANGED <<byAgent, nonStoreVars>>

\* budget.TotalSpent += amount
DeductSpent(p) ==
    /\ pc[p] = "deduct_spent"
    /\ budgets' = [ budgets EXCEPT ![loc[p].id].TotalSpent = @ + loc[p].amount ]
    /\ pc' = [ pc EXCEPT ![p] = "deduct_count" ]
    /\ UNCHANGED <<byAgent, bLock, loc, last, nonStoreVars>>

\* budget.RequestCount++; return nil (the deferred Unlock runs)
DeductCount(p) ==
    /\ pc[p] = "deduct_count"
    /\ LET id == loc[p].id
           b == [ budgets[id] EXCEPT !.RequestCount = @ + 1 ]
       IN  /\ budgets' = [ budgets EXCEPT ![id] = b ]
           /\ loc' = [ NoteCommit(loc, id, b) EXCEPT ![p] =
                         IF loc[p].ret = "idle" THEN NoLocals ELSE loc[p] ]
    /\ bLock' = 0
    /\ pc' = [ pc EXCEPT ![p] = loc[p].ret ]
    /\ last' = IF loc[p].ret = "idle"
               THEN [ NoResult EXCEPT !.op = "Deduct" ] ELSE last
    /\ UNCHANGED <<byAgent, nonStoreVars>>

\* InMemoryPreAuthStore.Refund up to budget.Remaining += amount
RefundBegin(p, id, amount) ==
    /\ pc[p] = "idle" /\ bLock = 0
    /\ IF budgets[id] = NoBudget
       THEN /\ last' = [ NoResult EXCEPT !.op = "Refund",
                                         !.err = "budget not found" ]
            /\ UNCHANGED <<budgets, bLock, pc, loc>>
       ELSE /\ budgets[id].Remaining + amount <= MaxRemaining
            /\ budgets[id].Remaining + amount >= MinRemaining
            /\ budgets' = [ budgets EXCEPT ![id].Remaining = @ + amount ]
            /\ bLock' = p
            /\ pc' = [ pc EXCEPT ![p] = "refund_spent" ]
            /\ loc' = [ loc EXCEPT ![p] =
                          [ NoLocals EXCEPT !.id = id, !.amount = amount ] ]
            /\ UNCHANGED last
    /\ UNCHANGED <<byAgent, nonStoreVars>>

RefundSpent_SpentKept(p) ==
    /\ pc[p] = "refund_spent"
    /\ loc' = [ NoteCommit(loc, loc[p].id, budgets[loc[p].id]) EXCEPT
                  ![p] = NoLocals ]
    /\ bLock' = 0
    /\ pc' = [ pc EXCEPT ![p] = "idle" ]
    /\ last' = [ NoResult EXCEPT !.op = "Refund" ]
    /\ UNCHANGED <<budgets, byAgent, nonStoreVars>>

\* budget.TotalSpent -= amount; return nil
RefundSpent(p) ==
    /\ pc[p] = "refund_spent"
    /\ LET id == loc[p].id
           b == [ budgets[id] EXCEPT !.TotalSpent = @ - loc[p].amount ]
       IN  /\ budgets' = [ budgets EXCEPT ![id] = b ]
           /\ loc' = [ NoteCommit(loc, id, b) EXCEPT ![p] = NoLocals ]
    /\ bLock' = 0
    /\ pc' = [ pc EXCEPT ![p] = "idle" ]
    /\ last' = [ NoResult EXCEPT !.op = "Refund" ]
    /\ UNCHANGED <<byAgent, nonStoreVars>>

StoreDelete_IndexKept(p, id) ==
    /\ pc[p] = "idle" /\ bLock = 0
    /\ budgets' = [ budgets EXCEPT ![id] = NoBudget ]
    /\ loc' = Detach(loc, id)
    /\ last' = [ NoResult EXCEPT !.op = "Delete", !.id = id,
                                 !.agent = budgets[id].AgentID ]
    /\ UNCHANGED <<byAgent, bLock, pc, nonStoreVars>>

\* InMemoryPreAuthStore.Delete: the index entry of the agent named by the
\* record found under id is removed, whatever budget it points to.
StoreDelete(p, id) ==
    /\ pc[p] = "idle" /\ bLock = 0
    /\ budgets' = [ budgets EXCEPT ![id] = NoBudget ]
    /\ byAgent' = IF budgets[id] # NoBudget /\ budgets[id].AgentID # NoID
                  THEN [ byAgent EXCEPT ![budgets[id].AgentID] = NoID ]
                  ELSE byAgent
    /\ loc' = Detach(loc, id)
    /\ last' = [ NoResult EXCEPT !.op = "Delete", !.id = id,
                                 !.agent = budgets[id].AgentID ]
    /\ UNCHANGED <<bLock, pc, nonStoreVars>>

\* InMemoryPreAuthStore.Get
StoreGet(id) ==
    IF id \notin BudgetIDs \/ budgets[id] = NoBudget
    THEN [ err |-> "budget not found", budget |-> NilBudget ]
    ELSE [ err |-> "", budget |-> PointerTo(id) ]

\* InMemoryPreAuthStore.GetByAgentID: s.budgets[budgetID] is returned with a
\* nil error, also when the map holds nothing under budgetID.
StoreGetByAgentID(agentID) ==
    IF agentID \notin AgentIDs \/ byAgent[agentID] = NoID
    THEN [ err |-> "no budget for agent", budget |-> NilBudget ]
    ELSE [ err |-> "",
           budget |-> IF budgets[byAgent[agentID]] = NoBudget THEN NilBudget
                      ELSE PointerTo(byAgent[agentID]) ]

\* POSTs of AIBudgetHandler that create a budget in one run.
MaxBudgetPosts == 2

\* AIBudgetHandler POST.  decoded: the body is JSON of the request's shape;
\* otherwise the answer is 400 and the store is not called.  store.Create
\* puts the new budget under the generated id, over a budget already stored
\* there, and points the agent's index to it; then the handler writes 201
\* and encodes the budget it created, without the store's mutex.
AIBudgetPost(p, decoded, agent, total) ==
    /\ pc[p] = "idle"
    /\ IF ~decoded
       THEN /\ last' = [ NoResult EXCEPT !.op = "Create",
                                         !.err = "invalid request",
                                         !.status = StatusBadRequest ]
            /\ UNCHANGED <<budgets, byAgent, pc, loc>>
       ELSE LET bid == generateBudgetID
                b == [ ID |-> bid, AgentID |-> agent, TotalBudget |-> total,
                       Remaining |-> total, TotalSpent |-> 0,
                       RequestCount |-> 0 ]
            IN  /\ bLock = 0
                /\ budgets' = [ budgets EXCEPT ![bid] = b ]
                /\ byAgent' = IF agent # NoID
                              THEN [ byAgent EXCEPT ![agent] = bid ]
                              ELSE byAgent
                /\ pc' = [ pc EXCEPT ![p] = "encode_remaining" ]
                /\ loc' = [ Detach(loc, bid) EXCEPT ![p] =
                              [ NoLocals EXCEPT !.id = bid,
                                  !.budget = PointerTo(bid),
                                  !.created = TRUE ] ]
                /\ bPosts < MaxBudgetPosts
                /\ bPosts' = bPosts + 1
                /\ UNCHANGED last
    /\ ~decoded => UNCHANGED bPosts
    /\ UNCHANGED <<bLock, gateVars, uniVars, sessVars, aiVars, meterVars,
                   agentPayVars, multiVars, regVars, edgeVars, sessStoreVars,
                   mcpVars>>

\* AIBudgetHandler GET: store.Get for ?id=, else store.GetByAgentID for
\* ?agentId=, under the read lock; on success the handler goes on to encode
\* the budget it was handed.
BudgetGet(p, id, agent) ==
    /\ pc[p] = "idle" /\ bLock = 0
    /\ id # NoID \/ agent # NoID
    /\ LET bid == IF id # NoID THEN id ELSE byAgent[agent]
       IN  IF bid = NoID \/ (id # NoID /\ budgets[bid] = NoBudget)
           THEN /\ last' = [ NoResult EXCEPT !.op = "Get",
                               !.err = "budget not found",
                               !.status = StatusNotFound ]
                /\ UNCHANGED <<pc, loc>>
           ELSE IF budgets[bid] = NoBudget
           THEN \* GetByAgentID returned (nil, nil): the body is "null"
                /\ last' = [ NoResult EXCEPT !.op = "Get", !.status = StatusOK ]
                /\ UNCHANGED <<pc, loc>>
           ELSE /\ pc' = [ pc EXCEPT ![p] = "encode_remaining" ]
                /\ loc' = [ loc EXCEPT ![p] =
                              [ NoLocals EXCEPT !.id = bid,
                                  !.budget = PointerTo(bid),
                                  !.cand = { Snapshot(budgets[bid]) } ] ]
                /\ UNCHANGED last
    /\ UNCHANGED <<storeVars, nonStoreVars>>

\* json.NewEncoder(w).Encode(budget) reads the struct's fields in their
\* order of declaration, without the store's mutex: Remaining, ...
EncodeRemaining(p) ==
    /\ pc[p] = "encode_remaining"
    /\ LET v == Deref(loc[p].budget).Remaining
       IN  loc' = [ loc EXCEPT ![p].rem = v,
                               ![p].cand = { c \in @ : c[1] = v } ]
    /\ pc' = [ pc EXCEPT ![p] = "encode_spent" ]
    /\ UNCHANGED <<storeVars, last, nonStoreVars>>

\* ... TotalSpent, ...
EncodeSpent(p) ==
    /\ pc[p] = "encode_spent"
    /\ LET v == Deref(loc[p].budget).TotalSpent
       IN  loc' = [ loc EXCEPT ![p].spent = v,
                               ![p].cand = { c \in @ : c[2] = v } ]
    /\ pc' = [ pc EXCEPT ![p] = "encode_count" ]
    /\ UNCHANGED <<storeVars, last, nonStoreVars>>

\* ... RequestCount; the response is written, under the status the handler
\* set before the encoding (201 after a POST, 200 after a GET).
EncodeCount(p) ==
    /\ pc[p] = "encode_count"
    /\ LET v == Deref(loc[p].budget).RequestCount
       IN  last' = [ NoResult EXCEPT
                       !.op = IF loc[p].created THEN "Create" ELSE "Get",
                       !.status = IF loc[p].created THEN StatusCreated
                                  ELSE StatusOK,
                       !.obs = <<loc[p].rem, loc[p].spent, v>>,
                       !.cand = { c \in loc[p].cand : c[3] = v } ]
    /\ pc' = [ pc EXCEPT ![p] = "idle" ]
    /\ loc' = [ loc EXCEPT ![p] = NoLocals ]
    /\ UNCHANGED <<storeVars, nonStoreVars>>

----------------------------------------------------------------------------
(* InMemorySessionStore and SessionMiddleware.  GetSession hands out the    *)
(* *Session the map points to; SessionMiddleware validates it and counts    *)
(* the request on it outside the store's mutex.  No session is deleted in   *)
(* these specifications, so the *Session a task holds is the map entry of   *)
(* its id.                                                                  *)

\* Requests with an X-Session-ID header that a run starts, and the last
\* tick of the clock.
MaxSessionRequests == 4
MaxTime == 2

SessionTypeTime == "time"
SessionTypeRequests == "requests"
SessionTypeUnlimited == "unlimited"
SessionTypes == { SessionTypeRequests, SessionTypeTime, SessionTypeUnlimited }

\* generateSessionID draws 16 random bytes: "sess_1" stands for the id of the
\* session that is created, "sess_0" for an id no session has.
SessionIDs == { "sess_1" }
UnknownSessionID == "sess_0"
SessMaxRequests == { 1, 2 }
SessExpiries == { 1, 100 }
SessPaths == { <<"/api", "/data">>, <<"/admin">> }
SessAllowedEndpoints == { <<>>, << <<"/api", "/*">> >> }

NoSession ==
    [ ID |-> NoID, Active |-> FALSE, ExpiresAt |-> 0, SessionType |-> "",
      MaxRequests |-> 0, UsedRequests |-> 0, AllowedEndpoints |-> <<>> ]

NoSessLocals == [ sid |-> NoID, path |-> <<>>, at |-> 0, used |-> 0 ]
NoSessResponse ==
    [ status |-> 0, error |-> "", message |-> "", forwarded |-> FALSE,
      remaining |-> <<>> ]

\* session.go:238  matchesPattern, a pattern being its path segments with
\* the wildcard as the last one.
matchesPattern(path, pattern) ==
    IF pattern = <<"*">> \/ pattern = <<"/*">> THEN TRUE
    ELSE IF Len(pattern) > 1 /\ pattern[Len(pattern)] = "/*"
    THEN HasPrefix(path, SubSeq(pattern, 1, Len(pattern) - 1))
    ELSE path = pattern

RequestLimitExceeded_OffByOne(session) ==
    /\ session.SessionType = SessionTypeRequests
    /\ session.UsedRequests > session.MaxRequests

\* session.go:216
RequestLimitExceeded(session) ==
    /\ session.SessionType = SessionTypeRequests
    /\ session.UsedRequests >= session.MaxRequests

validateSession_ExpiryFirst(session, path, now) ==
    IF now > session.ExpiresAt THEN "session has expired"
    ELSE IF ~session.Active THEN "session is inactive"
    ELSE IF RequestLimitExceeded(session) THEN "session request limit exceeded"
    ELSE IF /\ Len(session.AllowedEndpoints) > 0
            /\ ~\E i \in 1..Len(session.AllowedEndpoints) :
                  \/ path = session.AllowedEndpoints[i]
                  \/ matchesPattern(path, session.AllowedEndpoints[i])
    THEN "endpoint not allowed for this session"
    ELSE ""

\* session.go:207  validateSession: the error's text, "" for nil
validateSession(session, path, now) ==
    IF ~session.Active THEN "session is inactive"
    ELSE IF now > session.ExpiresAt THEN "session has expired"
    ELSE IF RequestLimitExceeded(session) THEN "session request limit exceeded"
    ELSE IF /\ Len(session.AllowedEndpoints) > 0
            /\ ~\E i \in 1..Len(session.AllowedEndpoints) :
                  \/ path = session.AllowedEndpoints[i]
                  \/ matchesPattern(path, session.AllowedEndpoints[i])
    THEN "endpoint not allowed for this session"
    ELSE ""

\* session.go:263  formatInt64: the decimal digits of n, "0" below zero
formatInt64(n) == IF n < 0 THEN 0 ELSE n

\* time.Duration.String for a whole number d of seconds, as the sequence of
\* the parts of its text: the seconds alone below a minute ("40s", "0s"),
\* minutes and seconds from a minute on ("1m40s", "1m0s"), hours, minutes
\* and seconds from an hour on ("1h0m0s"), with "-" in front of a negative
\* duration.
DurationString(d) ==
    LET u == IF d < 0 THEN 0 - d ELSE d
        text == IF u < 60
                THEN << u, "s" >>
                ELSE IF u < 3600
                THEN << u \div 60, "m", u % 60, "s" >>
                ELSE << u \div 3600, "h", (u \div 60) % 60, "m", u % 60, "s" >>
    IN  IF d < 0 THEN << "-" >> \o text ELSE text

\* session.go:251  formatSessionRemaining: the text of the header as the
\* sequence of its parts, the numbers that are printed and the words around
\* them.  For a time-based session it is the text of time.Until(ExpiresAt)
\* at the clock reading now, in whole ticks (a tick is a second, so that
\* Round(time.Second) leaves it), negative once the expiry has passed.
formatSessionRemaining(session, now) ==
    IF session.SessionType = SessionTypeRequests
    THEN << formatInt64(session.MaxRequests - session.UsedRequests), " requests" >>
    ELSE IF session.SessionType = SessionTypeTime
    THEN DurationString(session.ExpiresAt - now)
    ELSE << "unlimited" >>

sendSessionError_PaymentRequired(code, message) ==
    [ NoSessResponse EXCEPT !.status = StatusPaymentRequired, !.error = code,
                            !.message = message ]

\* session.go:281  sendSessionError
sendSessionError(code, message) ==
    [ NoSessResponse EXCEPT !.status = StatusUnauthorized, !.error = code,
                            !.message = message ]

\* Requests carrying a session id that are under way or answered.
SessRequestsStarted ==
    Len(sLog) + Cardinality({ p \in Procs : sPc[p] # "idle" })

\* InMemorySessionStore.CreateSession, by a caller that leaves the id to the
\* store.
CreateSession(p, type, max, expires, allowed) ==
    /\ sPc[p] = "idle"
    /\ sessions["sess_1"] = NoSession
    /\ sessions' = [ sessions EXCEPT !["sess_1"] =
                       [ ID |-> "sess_1", Active |-> TRUE, ExpiresAt |-> expires,
                         SessionType |-> type, MaxRequests |-> max,
                         UsedRequests |-> 0, AllowedEndpoints |-> allowed ] ]
    /\ UNCHANGED <<sNow, sPc, sLoc, sLog, sLast, gateVars, uniVars, storeVars,
                   procVars, aiVars, moreVars>>

\* SessionMiddleware on a request without X-Session-ID, or with an id that
\* GetSession does not find: the response is written at once.
SessNoSession(p, sid) ==
    /\ sPc[p] = "idle"
    /\ IF sid \in SessionIDs THEN sessions[sid] = NoSession ELSE TRUE
    /\ sLast' = IF sid = NoID
                THEN [ NoSessResponse EXCEPT !.status = StatusOK,
                                             !.forwarded = TRUE ]
                ELSE sendSessionError("invalid_session",
                                      "Session not found or invalid")
    /\ UNCHANGED <<sessions, sNow, sPc, sLoc, sLog, gateVars, uniVars,
                   storeVars, procVars, aiVars, moreVars>>

\* SessionMiddleware up to config.Store.GetSession returning the session.
SessGetSession(p, sid, path) ==
    /\ sPc[p] = "idle"
    /\ sid \in SessionIDs /\ sessions[sid] # NoSession
    /\ SessRequestsStarted < MaxSessionRequests
    /\ sPc' = [ sPc EXCEPT ![p] = "validate" ]
    /\ sLoc' = [ sLoc EXCEPT ![p] = [ NoSessLocals EXCEPT !.sid = sid,
                                                          !.path = path ] ]
    /\ UNCHANGED <<sessions, sNow, sLog, sLast, gateVars, uniVars, storeVars,
                   procVars, aiVars, moreVars>>

\* validateSession(session, r.URL.Path) and what follows a failure.
SessValidate(p) ==
    /\ sPc[p] = "validate"
    /\ LET session == sessions[sLoc[p].sid]
           err == validateSession(session, sLoc[p].path, sNow)
       IN  IF err # ""
           THEN /\ sLast' = sendSessionError("session_error", err)
                /\ sLog' = Append(sLog, [ status |-> StatusUnauthorized,
                                          message |-> err, at |-> sNow,
                                          path |-> sLoc[p].path ])
                /\ sPc' = [ sPc EXCEPT ![p] = "idle" ]
                /\ sLoc' = [ sLoc EXCEPT ![p] = NoSessLocals ]
           ELSE /\ sPc' = [ sPc EXCEPT ![p] =
                              IF session.SessionType = SessionTypeRequests
                              THEN "load_used" ELSE "respond" ]
                /\ sLoc' = [ sLoc EXCEPT ![p].at = sNow ]
                /\ UNCHANGED <<sLog, sLast>>
    /\ UNCHANGED <<sessions, sNow, gateVars, uniVars, storeVars, procVars, aiVars,
                   moreVars>>

\* session.UsedRequests++ is a load, ...
SessLoadUsed(p) ==
    /\ sPc[p] = "load_used"
    /\ sLoc' = [ sLoc EXCEPT ![p].used = sessions[sLoc[p].sid].UsedRequests ]
    /\ sPc' = [ sPc EXCEPT ![p] = "store_used" ]
    /\ UNCHANGED <<sessions, sNow, sLog, sLast, gateVars, uniVars, storeVars,
                   procVars, aiVars, moreVars>>

\* ... an addition and a store, outside the store's mutex.
SessStoreUsed(p) ==
    /\ sPc[p] = "store_used"
    /\ sessions' = [ sessions EXCEPT ![sLoc[p].sid].UsedRequests =
                                        sLoc[p].used + 1 ]
    /\ sPc' = [ sPc EXCEPT ![p] = "respond" ]
    /\ UNCHANGED <<sNow, sLoc, sLog, sLast, gateVars, uniVars, storeVars,
                   procVars, aiVars, moreVars>>

\* config.Store.UpdateSession(session) puts the pointer the map already
\* holds; the headers are set and next.ServeHTTP answers.
SessRespond(p) ==
    /\ sPc[p] = "respond"
    /\ sLast' = [ NoSessResponse EXCEPT !.status = StatusOK, !.forwarded = TRUE,
                    !.remaining =
                        formatSessionRemaining(sessions[sLoc[p].sid], sNow) ]
    /\ sLog' = Append(sLog, [ status |-> StatusOK, message |-> "",
                              at |-> sLoc[p].at, path |-> sLoc[p].path ])
    /\ sPc' = [ sPc EXCEPT ![p] = "idle" ]
    /\ sLoc' = [ sLoc EXCEPT ![p] = NoSessLocals ]
    /\ UNCHANGED <<sessions, sNow, gateVars, uniVars, storeVars, procVars, aiVars,
                   moreVars>>

\* Time passes.
SessTick ==
    /\ sNow < MaxTime
    /\ sNow' = sNow + 1
    /\ UNCHANGED <<sessions, sPc, sLoc, sLog, sLast, gateVars, uniVars,
                   storeVars, procVars, aiVars, moreVars>>

----------------------------------------------------------------------------
(* AIFirstMiddleware with its idempotency store and pre-authorized budgets. *)
(* Header maps are functions from the header names to the sequence of       *)
(* values (<<>>: the header is not set); an idempotency record keeps a      *)
(* map[string]string, a function from the names it holds to one value.      *)

\* Requests taken up in a run, and the last tick of the clock (in hours).
MaxAIRequests == 3
MaxAITime == 2

StatusInternalServerError == 500
ErrCodeInsufficientBudget == "INSUFFICIENT_BUDGET"
ErrCodeServerError == "SERVER_ERROR"

\* 24 * time.Hour
DefaultIdempotencyTTL == 24

NoKey == ""
IdemKeys == { "key_1" }
\* config.DefaultCost, the cost getCostForPath returns for a path that no
\* endpoint lists.
AICost == 60
AIBudgetTotals == { 100 }

\* Pre-authorization is on; the idempotency store is on with a one-hour
\* validity, on with the default validity, or off.
AIConfigs ==
    { [ EnablePreAuth |-> TRUE, EnableIdempotency |-> TRUE, IdempotencyTTL |-> 1 ],
      [ EnablePreAuth |-> TRUE, EnableIdempotency |-> TRUE, IdempotencyTTL |-> 0 ],
      [ EnablePreAuth |-> TRUE, EnableIdempotency |-> FALSE, IdempotencyTTL |-> 0 ] }
DefaultAIConfig ==
    [ EnablePreAuth |-> FALSE, EnableIdempotency |-> FALSE, IdempotencyTTL |-> 0 ]

\* The names are in the canonical form net/http gives them.
HeaderNames ==
    { "Content-Type", "X-Request-Id", "X-Ai-Optimized", "X-Budget-Remaining",
      "X-Budget-Deducted", "X-Idempotent-Replay", "Set-Cookie" }
NoHeaders == [ h \in HeaderNames |-> <<>> ]

\* What the downstream handler does with the response writer: the status
\* codes it passes to WriteHeader, one call after the other, the body, the
\* values it adds as Set-Cookie, whether it adds them only after it has
\* written the status (too late for the response, but not for the header
\* map), and the headers it deletes from the map before it writes.
AIHandlerOutputs ==
    { [ codes |-> << StatusOK >>, body |-> "result", cookies |-> <<>>,
        late |-> FALSE, deleted |-> {} ],
      [ codes |-> << StatusInternalServerError >>, body |-> "failure",
        cookies |-> <<"a", "b">>, late |-> TRUE, deleted |-> {} ],
      [ codes |-> << StatusOK, StatusInternalServerError >>, body |-> "partial",
        cookies |-> <<>>, late |-> FALSE, deleted |-> {} ],
      [ codes |-> << StatusOK >>, body |-> "result", cookies |-> <<>>,
        late |-> FALSE, deleted |-> { "X-Ai-Optimized" } ] }

\* The handlers that call WriteHeader once and delete no header.
AIPlainOutputs ==
    { out \in AIHandlerOutputs : Len(out.codes) = 1 /\ out.deleted = {} }

\* net/http sends the status of the first WriteHeader and ignores the later
\* ones; aiResponseRecorder.WriteHeader (middleware.go:795-798) keeps the
\* code of the last.
SentStatus(out) == out.codes[1]
RecordedStatus(out) == out.codes[Len(out.codes)]

NoRecord == [ StatusCode |-> 0, Headers |-> <<>>, Body |-> "", ExpiresAt |-> 0 ]

\* middleware.go:769-772  headers[k] = wrapped.Header().Get(k)
RecordedHeaders(hs) ==
    [ k \in { h \in HeaderNames : hs[h] # <<>> } |-> hs[k][1] ]

RecordExpired_AtExpiry(record, now) == now >= record.ExpiresAt

\* middleware.go:622  time.Now().After(record.ExpiresAt)
RecordExpired(record, now) == now > record.ExpiresAt

IdemGet_Absent(key, now) == NoRecord

\* InMemoryIdempotencyStore.Get: NoRecord stands for the nil it returns
IdemGet(key, now) ==
    IF idem[key] = NoRecord \/ RecordExpired(idem[key], now)
    THEN NoRecord ELSE idem[key]

\* time.Time{}, the ExpiresAt of a record whose maker set none: a time
\* before every reading of the clock.
ZeroTime == -100

\* Records handed to Set by a caller of the store: without an ExpiresAt,
\* with one that has passed and with one in the first tick.
IdemRecords ==
    [ StatusCode : { StatusOK }, Headers : { <<>> }, Body : { "test" },
      ExpiresAt : { ZeroTime, -1, 1 } ]

\* InMemoryIdempotencyStore.Set: the records it leaves.  A record without an
\* ExpiresAt gets 24 hours; the record of the key, if any, is replaced.
IdemSet(records, key, record, now) ==
    [ records EXCEPT ![key] =
        [ record EXCEPT !.ExpiresAt = IF @ = ZeroTime
                                       THEN now + DefaultIdempotencyTTL ELSE @ ] ]

\* InMemoryIdempotencyStore.Delete: the records it leaves
IdemDelete(records, key) == [ records EXCEPT ![key] = NoRecord ]

\* A call of the store's Set from outside the middleware.
IdemStoreSet(key, record) ==
    /\ idem' = IdemSet(idem, key, record, aNow)
    /\ last' = [ NoResult EXCEPT !.op = "IdemSet", !.id = key ]
    /\ UNCHANGED <<aCfg, aNow, aStarted, aLog, storeVars, pc, loc, gateVars,
                   uniVars, sessVars, moreVars>>

\* A call of the store's Get: obs holds what it returned.
IdemStoreGet(key) ==
    /\ last' = [ NoResult EXCEPT !.op = "IdemGet", !.id = key,
                                 !.obs = << IdemGet(key, aNow) >> ]
    /\ UNCHANGED <<aiVars, storeVars, pc, loc, gateVars, uniVars, sessVars,
                   moreVars>>

\* A call of the store's Delete.
IdemStoreDelete(key) ==
    /\ idem' = IdemDelete(idem, key)
    /\ last' = [ NoResult EXCEPT !.op = "IdemDelete", !.id = key ]
    /\ UNCHANGED <<aCfg, aNow, aStarted, aLog, storeVars, pc, loc, gateVars,
                   uniVars, sessVars, moreVars>>

\* middleware.go:693-696: the record's headers are set on the response, then
\* X-Idempotent-Replay.
ReplayedHeaders(hs, record) ==
    [ h \in HeaderNames |->
        IF h = "X-Idempotent-Replay" THEN <<"true">>
        ELSE IF h \in DOMAIN record.Headers THEN << record.Headers[h] >>
        ELSE hs[h] ]

\* middleware.go:684-686
AIBaseHeaders(req) ==
    [ NoHeaders EXCEPT !["Content-Type"] = <<"application/json">>,
                       !["X-Request-Id"] = << ToString(req) >>,
                       !["X-Ai-Optimized"] = <<"true">> ]

NoAILogEntry ==
    [ key |-> NoKey, agent |-> NoID, at |-> 0, replay |-> FALSE,
      handler |-> FALSE, status |-> 0, body |-> "", code |-> "",
      retryable |-> FALSE, headers |-> NoHeaders, kept |-> NoHeaders,
      stored |-> FALSE, expires |-> 0, cause |-> "", required |-> "",
      remaining |-> "", had |-> FALSE, charged |-> 0, from |-> NoID ]

\* sendAIError
sendAIError(l, code, retryable) ==
    [ NoAILogEntry EXCEPT
        !.key = l.ai.key, !.agent = l.ai.agent, !.at = l.ai.at,
        !.had = l.ai.had,
        !.status = IF code = ErrCodeInsufficientBudget
                   THEN StatusPaymentRequired ELSE StatusInternalServerError,
        !.code = code, !.retryable = retryable, !.body = code,
        !.headers = AIBaseHeaders(l.ai.req), !.kept = AIBaseHeaders(l.ai.req) ]

\* AIFirstMiddleware up to the idempotency check: a cached record is
\* replayed at once.
AIFirstBegin(p, agent, key) ==
    /\ pc[p] = "idle"
    /\ aStarted < MaxAIRequests
    /\ aStarted' = aStarted + 1
    /\ LET req == aStarted + 1
           record == IF aCfg.EnableIdempotency /\ key # NoKey
                     THEN IdemGet(key, aNow) ELSE NoRecord
       IN  IF record # NoRecord
           THEN /\ aLog' = Append(aLog,
                     [ NoAILogEntry EXCEPT
                         !.key = key, !.agent = agent, !.at = aNow,
                         !.replay = TRUE, !.status = record.StatusCode,
                         !.body = record.Body,
                         !.headers = ReplayedHeaders(AIBaseHeaders(req), record),
                         !.kept = ReplayedHeaders(AIBaseHeaders(req), record) ])
                /\ UNCHANGED <<pc, loc>>
           ELSE /\ pc' = [ pc EXCEPT ![p] = "ai_budget" ]
                /\ loc' = [ loc EXCEPT ![p] =
                              [ NoLocals EXCEPT !.ai =
                                  [ NoAIRequest EXCEPT !.agent = agent,
                                      !.key = key, !.req = req, !.at = aNow ] ] ]
                /\ UNCHANGED aLog
    /\ UNCHANGED <<aCfg, idem, aNow, last, storeVars, gateVars, uniVars, sessVars,
                   moreVars>>

\* The store holds a budget that was created for the agent.
HasBudget(agent) ==
    \E id \in BudgetIDs :
        budgets[id] # NoBudget /\ budgets[id].AgentID = agent

\* config.PreAuthStore.GetByAgentID(agentID), when pre-authorization is on
\* and the request names an agent.
AIGetBudget(p) ==
    /\ pc[p] = "ai_budget"
    /\ IF aCfg.EnablePreAuth /\ loc[p].ai.agent # NoID
       THEN /\ bLock = 0
            /\ LET bid == byAgent[loc[p].ai.agent]
                   had == HasBudget(loc[p].ai.agent)
               IN  IF bid = NoID \/ budgets[bid] = NoBudget
                   THEN /\ pc' = [ pc EXCEPT ![p] = "ai_next" ]
                        /\ loc' = [ loc EXCEPT ![p].ai.had = had ]
                   ELSE /\ pc' = [ pc EXCEPT ![p] = "ai_check" ]
                        /\ loc' = [ loc EXCEPT ![p].id = bid,
                                               ![p].budget = PointerTo(bid),
                                               ![p].ai.had = had ]
       ELSE /\ pc' = [ pc EXCEPT ![p] = "ai_next" ]
            /\ UNCHANGED loc
    /\ UNCHANGED <<last, storeVars, aiVars, gateVars, uniVars, sessVars,
                   moreVars>>

\* if budget.Remaining < cost: the budget is read outside the store's mutex.
AICheckBudget(p) ==
    /\ pc[p] = "ai_check"
    /\ IF Deref(loc[p].budget).Remaining < AICost
       THEN /\ aLog' = Append(aLog,
                 [ sendAIError(loc[p], ErrCodeInsufficientBudget, FALSE) EXCEPT
                     !.cause = "budget.Remaining < cost",
                     !.remaining = ToString(Deref(loc[p].budget).Remaining),
                     !.required = ToString(AICost) ])
            /\ pc' = [ pc EXCEPT ![p] = "idle" ]
            /\ loc' = [ loc EXCEPT ![p] = NoLocals ]
       ELSE /\ pc' = [ pc EXCEPT ![p] = "ai_deduct" ]
            /\ loc' = [ loc EXCEPT ![p].amount = AICost ]
            /\ UNCHANGED aLog
    /\ UNCHANGED <<aCfg, idem, aNow, aStarted, last, storeVars, gateVars,
                   uniVars, sessVars, moreVars>>

\* config.PreAuthStore.Deduct(budget.ID, cost) up to budget.Remaining -=
\* amount, and what follows an error.
AIDeduct(p) ==
    /\ pc[p] = "ai_deduct" /\ bLock = 0
    /\ LET id == loc[p].id
       IN  IF budgets[id] = NoBudget \/ InsufficientBudget(budgets[id], AICost)
           THEN /\ aLog' = Append(aLog,
                     [ sendAIError(loc[p], ErrCodeServerError, TRUE) EXCEPT
                         !.cause = IF budgets[id] = NoBudget
                                   THEN "budget not found"
                                   ELSE "insufficient budget" ])
                /\ pc' = [ pc EXCEPT ![p] = "idle" ]
                /\ loc' = [ loc EXCEPT ![p] = NoLocals ]
                /\ UNCHANGED <<budgets, bLock>>
           ELSE /\ budgets' = [ budgets EXCEPT ![id].Remaining = @ - AICost ]
                /\ bLock' = p
                /\ pc' = [ pc EXCEPT ![p] = "deduct_spent" ]
                /\ loc' = [ loc EXCEPT ![p].ret = "ai_next",
                                        ![p].ai.charged = AICost,
                                        ![p].ai.from = budgets[id].AgentID ]
                /\ UNCHANGED aLog
    /\ UNCHANGED <<byAgent, aCfg, idem, aNow, aStarted, last, gateVars, uniVars,
                   sessVars, moreVars>>

\* The budget headers are set (budget.Remaining is read again) and
\* next.ServeHTTP(wrapped, r) runs the downstream handler.
AINext(p, out) ==
    /\ pc[p] = "ai_next"
    /\ LET base == AIBaseHeaders(loc[p].ai.req)
           hs == IF loc[p].budget = NilBudget THEN base
                 ELSE [ base EXCEPT
                          !["X-Budget-Remaining"] =
                              << ToString(Deref(loc[p].budget).Remaining) >>,
                          !["X-Budget-Deducted"] = << ToString(AICost) >> ]
           left == [ h \in HeaderNames |->
                       IF h \in out.deleted THEN <<>> ELSE hs[h] ]
           kept == [ left EXCEPT !["Set-Cookie"] = out.cookies ]
       IN  loc' = [ loc EXCEPT ![p].ai.status = SentStatus(out),
                               ![p].ai.recorded = RecordedStatus(out),
                               ![p].ai.body = out.body,
                               ![p].ai.sent = IF out.late THEN left ELSE kept,
                               ![p].ai.kept = kept ]
    /\ pc' = [ pc EXCEPT ![p] = "ai_store" ]
    /\ UNCHANGED <<last, storeVars, aiVars, gateVars, uniVars, sessVars,
                   moreVars>>

\* The handler has returned: the response is recorded under the request's
\* idempotency key.
AIStore(p) ==
    /\ pc[p] = "ai_store"
    /\ LET l == loc[p].ai
           store == aCfg.EnableIdempotency /\ l.key # NoKey
           ttl == IF aCfg.IdempotencyTTL = 0 THEN DefaultIdempotencyTTL
                  ELSE aCfg.IdempotencyTTL
       IN  /\ idem' = IF store
                      THEN IdemSet(idem, l.key,
                               [ StatusCode |-> l.recorded,
                                 Headers |-> RecordedHeaders(l.kept),
                                 Body |-> l.body, ExpiresAt |-> aNow + ttl ],
                               aNow)
                      ELSE idem
           /\ aLog' = Append(aLog,
                [ NoAILogEntry EXCEPT
                    !.key = l.key, !.agent = l.agent, !.at = l.at,
                    !.handler = TRUE, !.status = l.status, !.body = l.body,
                    !.headers = l.sent, !.kept = l.kept, !.stored = store,
                    !.expires = IF store THEN aNow + ttl ELSE 0,
                    !.had = l.had, !.charged = l.charged, !.from = l.from ])
    /\ pc' = [ pc EXCEPT ![p] = "idle" ]
    /\ loc' = [ loc EXCEPT ![p] = NoLocals ]
    /\ UNCHANGED <<aCfg, aNow, aStarted, last, storeVars, gateVars, uniVars,
                   sessVars, moreVars>>

\* Time passes.
AITick ==
    /\ aNow < MaxAITime
    /\ aNow' = aNow + 1
    /\ UNCHANGED <<aCfg, idem, aStarted, aLog, storeVars, procVars, gateVars,
                   uniVars, sessVars, moreVars>>

----------------------------------------------------------------------------
(* InMemoryMeteringStore and MeteringMiddleware.  A metric is told from     *)
(* every other by the number of the request or store call that made it.     *)

\* Requests and store calls taken up in a run.
MaxMeterRequests == 4

\* maxSize = 100000 // Default 100k entries
DefaultMeterMaxSize == 100000
MeterMaxSizes == { 0, 1, 2 }
MeterPricePerRequest == 100
MeterStatuses == { StatusOK, StatusInternalServerError }

MeterConfigs == [ maxSize : MeterMaxSizes, Store : BOOLEAN ]
DefaultMeterConfig == [ maxSize |-> 0, Store |-> FALSE ]

NoMetric == [ req |-> 0, ResponseCode |-> 0, AmountPaid |-> 0, via |-> "" ]
NoReport == [ TotalRequests |-> -1, TotalRevenue |-> 0, seen |-> <<>>, appended |-> 0 ]

\* NewInMemoryMeteringStore: the capacity of the store
MeterMaxSize(maxSize) == IF maxSize <= 0 THEN DefaultMeterMaxSize ELSE maxSize

AtCapacity_OneMore(n, maxSize) == n > maxSize

\* if len(s.metrics) >= s.maxSize
AtCapacity(n, maxSize) == n >= maxSize

MeterLockFree_Ignored(l) == TRUE

\* s.mu can be taken
MeterLockFree(l) == l = 0

StoreConfigured_ExceptOnError(cfg, metric) ==
    cfg.Store /\ metric.ResponseCode < 400

\* if config.Store != nil
StoreConfigured(cfg, metric) == cfg.Store

RECURSIVE SumAmountPaid(_)
SumAmountPaid(ms) ==
    IF ms = <<>> THEN 0 ELSE Head(ms).AmountPaid + SumAmountPaid(Tail(ms))

\* The last n elements of a sequence, all of them when it has no more.
LastN(ms, n) ==
    IF Len(ms) <= n THEN ms ELSE SubSeq(ms, Len(ms) - n + 1, Len(ms))

\* MeteringMiddleware up to next.ServeHTTP(wrapped, r)
MeterRequest(p) ==
    /\ mPc[p] = "idle"
    /\ mStarted < MaxMeterRequests
    /\ mStarted' = mStarted + 1
    /\ mPc' = [ mPc EXCEPT ![p] = "handler" ]
    /\ mLoc' = [ mLoc EXCEPT ![p] =
                   [ NoMetric EXCEPT !.req = mStarted + 1, !.ResponseCode = StatusOK,
                                     !.AmountPaid = MeterPricePerRequest,
                                     !.via = "middleware" ] ]
    /\ UNCHANGED <<mCfg, metrics, mLock, mOrder, mEvicted, mDone, mLast, coreVars,
                   agentPayVars, multiVars, lateVars>>

\* The downstream handler writes its status and returns; the metric is
\* built and, when a store is configured, handed to RecordRequest.
MeterHandler(p, status) ==
    /\ mPc[p] = "handler"
    /\ LET metric == [ mLoc[p] EXCEPT !.ResponseCode = status ]
       IN  IF StoreConfigured(mCfg, metric)
           THEN /\ mPc' = [ mPc EXCEPT ![p] = "record" ]
                /\ mLoc' = [ mLoc EXCEPT ![p] = metric ]
                /\ UNCHANGED mDone
           ELSE /\ mPc' = [ mPc EXCEPT ![p] = "idle" ]
                /\ mLoc' = [ mLoc EXCEPT ![p] = NoMetric ]
                /\ mDone' = mDone \cup { metric }
    /\ UNCHANGED <<mCfg, metrics, mLock, mStarted, mOrder, mEvicted, mLast,
                   coreVars,
                   agentPayVars, multiVars, lateVars>>

\* A caller of the store hands a metric to RecordRequest, as
\* TestMeteringStore_Eviction does with AmountPaid: int64(i).
StoreRecordRequest(p) ==
    /\ mPc[p] = "idle"
    /\ mStarted < MaxMeterRequests
    /\ mStarted' = mStarted + 1
    /\ mPc' = [ mPc EXCEPT ![p] = "record" ]
    /\ mLoc' = [ mLoc EXCEPT ![p] =
                   [ NoMetric EXCEPT !.req = mStarted + 1, !.AmountPaid = mStarted,
                                     !.via = "store" ] ]
    /\ UNCHANGED <<mCfg, metrics, mLock, mOrder, mEvicted, mDone, mLast, coreVars,
                   agentPayVars, multiVars, lateVars>>

\* RecordRequest: s.mu.Lock(), and the oldest entry is evicted when the
\* store is at capacity.
RecordBegin(p) ==
    /\ mPc[p] = "record"
    /\ MeterLockFree(mLock)
    /\ mLock' = p
    /\ IF AtCapacity(Len(metrics), MeterMaxSize(mCfg.maxSize))
       THEN /\ metrics' = Tail(metrics)
            /\ mEvicted' = Append(mEvicted, Head(metrics))
       ELSE UNCHANGED <<metrics, mEvicted>>
    /\ mPc' = [ mPc EXCEPT ![p] = "append" ]
    /\ UNCHANGED <<mCfg, mLoc, mStarted, mOrder, mDone, mLast, coreVars,
                   agentPayVars, multiVars, lateVars>>

\* RecordRequest: the metric is appended and the deferred Unlock runs; a
\* request of MeteringMiddleware returns.
RecordAppend(p) ==
    /\ mPc[p] = "append"
    /\ metrics' = Append(metrics, mLoc[p])
    /\ mOrder' = Append(mOrder, mLoc[p])
    /\ mLock' = 0
    /\ mDone' = IF mLoc[p].via = "middleware" THEN mDone \cup { mLoc[p] }
                ELSE mDone
    /\ mPc' = [ mPc EXCEPT ![p] = "idle" ]
    /\ mLoc' = [ mLoc EXCEPT ![p] = NoMetric ]
    /\ UNCHANGED <<mCfg, mStarted, mEvicted, mLast, coreVars,
                   agentPayVars, multiVars, lateVars>>

\* GetMetrics with an empty filter, under s.mu.RLock()
GetMetrics(p) ==
    /\ mPc[p] = "idle"
    /\ MeterLockFree(mLock)
    /\ mLast' = [ TotalRequests |-> Len(metrics),
                  TotalRevenue |-> SumAmountPaid(metrics),
                  seen |-> metrics, appended |-> Len(mOrder) ]
    /\ UNCHANGED <<mCfg, metrics, mLock, mPc, mLoc, mStarted, mOrder, mEvicted,
                   mDone, coreVars,
                   agentPayVars, multiVars, lateVars>>

----------------------------------------------------------------------------
(* AIAgentPaymentMiddleware: pre-authorized budgets in front of             *)
(* UnifiedPaymentMiddleware.  The handler calls the store three times       *)
(* (GetByAgentID, Deduct, Get), each call taking and releasing the store's  *)
(* mutex, and reads the budgets it was handed without the mutex.            *)

\* Values of the User-Agent header, and those an aiAgentPatterns entry
\* matches.
UserAgents == { "Mozilla/5.0", "python-openai/1.0" }
UAMatchesAgentPattern(ua) == ua = "python-openai/1.0"

\* Values of X-Agent-Budget as ParseAIAgentHeaders reads them; AbsentBudget
\* stands for a request without the header.
AbsentBudget == 0
AgentBudgetHeaders == { AbsentBudget, 50, 200 }

\* The requests of UnifiedPaymentMiddleware that carry at most a
\* PAYMENT-SIGNATURE or an X-Stripe-Payment-Intent header.
AgentPayUniRequests ==
    { r \in UniRequests :
        /\ ~r.xproof.present
        /\ r.xpay = EmptyString /\ r.queryPI = EmptyString
        /\ r.sig \in { EmptyString, Rep("x", PaymentIDLen) } }

AgentPayRequests ==
    [ uni : AgentPayUniRequests, xAIAgent : BOOLEAN, ua : UserAgents,
      budget : AgentBudgetHeaders, taskID : OneAgent \cup { NoID },
      agentID : OneAgent \cup { NoID } ]

NoAgentPayRequest ==
    [ uni |-> NoUniRequest, xAIAgent |-> FALSE, ua |-> "", budget |-> AbsentBudget,
      taskID |-> NoID, agentID |-> NoID ]

\* req: the request the response answers.
NoAgentPayResponse ==
    [ served |-> FALSE, status |-> 0, forwarded |-> FALSE, calls |-> <<>>,
      method |-> "", remaining |-> 0, deducted |-> 0,
      req |-> NoAgentPayRequest ]

\* agent.go:40-62
isAIAgent(r) ==
    \/ r.xAIAgent
    \/ UAMatchesAgentPattern(r.ua)
    \/ r.budget # AbsentBudget
    \/ r.taskID # NoID

\* The proof headers of a request are read by UnifiedPaymentMiddleware:
\* until then a task's record of its request holds the path and the agent
\* headers.
ProofUnread(r) ==
    [ r EXCEPT !.uni = [ NoUniRequest EXCEPT !.path = r.uni.path ] ]

\* Requests that are made while another is under way: those of an agent
\* named by X-Agent-ID that is known by its User-Agent, with and without a
\* budget of its own.  They carry no payment proof.
MadeTogether(r) ==
    /\ r = ProofUnread(r)
    /\ ~r.xAIAgent /\ UAMatchesAgentPattern(r.ua)
    /\ r.taskID = NoID /\ r.agentID \in OneAgent
    /\ r.budget \in { AbsentBudget, 50 }

AgentPayConcRequests == { r \in AgentPayRequests : MadeTogether(r) }

\* The requests as the handler sees them before unified.ServeHTTP runs.
AgentPayUnreadRequests == { r \in AgentPayRequests : r = ProofUnread(r) }

\* The replies unified.ServeHTTP can get for the request r: a service
\* replies when the handler calls it, so there is one (unread) reply for a
\* service that is not called.
VerifyReplies(r, registry) ==
    LET unread == [ http |-> "transport_error", valid |-> FALSE,
                    intent |-> NoIntent ]
        rail == extractPaymentProof(r).proof.Rail
        calls == UnifiedPaymentMiddleware(r, registry, unread, unread).calls
    IN  IF \A i \in DOMAIN calls : calls[i] # "VerifyPayment"
        THEN { unread }
        ELSE IF rail = "stripe" THEN StripeVerifyReplies
        ELSE FacilitatorVerifyReplies

CaptureReplies(r, registry, verifyReply) ==
    LET unread == [ http |-> "transport_error", success |-> FALSE,
                    status |-> "" ]
        rail == extractPaymentProof(r).proof.Rail
        calls == UnifiedPaymentMiddleware(r, registry, verifyReply,
                                          unread).calls
    IN  IF \A i \in DOMAIN calls : calls[i] # "CapturePayment"
        THEN { unread }
        ELSE IF rail = "stripe" THEN StripeCaptureReplies
        ELSE FacilitatorSettleReplies

\* The response of the handler when it hands the request on to
\* UnifiedPaymentMiddleware.
ViaUnified(calls, u) ==
    [ NoAgentPayResponse EXCEPT !.served = TRUE, !.status = u.status,
                                !.forwarded = u.forwarded,
                                !.calls = calls \o <<"unified">> \o u.calls ]

\* The handler of AIAgentPaymentMiddleware up to the return of
\* PreAuthStore.GetByAgentID (under the store's read lock), which is called
\* for an agent's request that names an agent when a store is configured.
AIAgentPaymentMiddleware(p, r) ==
    /\ pc[p] = "idle"
    /\ r = ProofUnread(r)
    /\ apReq' = [ apReq EXCEPT ![p] = r ]
    /\ LET agentID == IF r.taskID # NoID THEN r.taskID ELSE r.agentID
           lookedUp == isAIAgent(r) /\ apCfg.PreAuthStore /\ agentID # NoID
           preAuth == StoreGetByAgentID(agentID)
       IN  /\ lookedUp => bLock = 0
           /\ IF lookedUp /\ preAuth.err = "" /\ preAuth.budget # NilBudget
              THEN /\ pc' = [ pc EXCEPT ![p] = "ap_check" ]
                   /\ loc' = [ loc EXCEPT ![p] =
                                 [ NoLocals EXCEPT
                                     !.id = preAuth.budget.id,
                                     !.budget = preAuth.budget,
                                     !.calls = <<"GetByAgentID">> ] ]
              ELSE /\ pc' = [ pc EXCEPT ![p] = "ap_fallback" ]
                   /\ loc' = [ loc EXCEPT ![p] =
                                 [ NoLocals EXCEPT
                                     !.calls = IF lookedUp
                                               THEN <<"GetByAgentID">>
                                               ELSE <<>> ] ]
    /\ UNCHANGED <<apCfg, apResp, storeVars, last, gateVars, uniVars, sessVars,
                   aiVars, meterVars, multiVars, lateVars>>

\* if preAuth.Remaining >= config.PricePerRequest: the budget is read
\* outside the store's mutex.
AgentPayCheck(p) ==
    /\ pc[p] = "ap_check"
    /\ pc' = [ pc EXCEPT ![p] =
                 IF Deref(loc[p].budget).Remaining >= UniPricePerRequest
                 THEN "ap_deduct" ELSE "ap_fallback" ]
    /\ UNCHANGED <<loc, last, storeVars, agentPayVars, gateVars, uniVars,
                   sessVars, aiVars, meterVars, multiVars, lateVars>>

\* PreAuthStore.Deduct(preAuth.ID, config.PricePerRequest) up to
\* budget.Remaining -= amount; after an error the handler goes on to the
\* other ways of paying.
AgentPayDeduct(p) ==
    /\ pc[p] = "ap_deduct" /\ bLock = 0
    /\ LET id == loc[p].id
           calls == loc[p].calls \o <<"Deduct">>
       IN  IF budgets[id] = NoBudget
              \/ InsufficientBudget(budgets[id], UniPricePerRequest)
           THEN /\ pc' = [ pc EXCEPT ![p] = "ap_fallback" ]
                /\ loc' = [ loc EXCEPT ![p].calls = calls ]
                /\ UNCHANGED <<budgets, bLock>>
           ELSE /\ budgets' = [ budgets EXCEPT
                                  ![id].Remaining = @ - UniPricePerRequest ]
                /\ bLock' = p
                /\ pc' = [ pc EXCEPT ![p] = "deduct_spent" ]
                /\ loc' = [ loc EXCEPT ![p].calls = calls,
                                        ![p].amount = UniPricePerRequest,
                                        ![p].ret = "ap_get" ]
    /\ UNCHANGED <<byAgent, last, agentPayVars, gateVars, uniVars, sessVars,
                   aiVars, meterVars, multiVars, lateVars>>

\* updatedPreAuth, _ := PreAuthStore.Get(preAuth.ID): nil when the budget
\* is no longer in the store.
AgentPayGet(p) ==
    /\ pc[p] = "ap_get" /\ bLock = 0
    /\ loc' = [ loc EXCEPT ![p].budget = StoreGet(loc[p].id).budget,
                            ![p].calls = @ \o <<"Get">> ]
    /\ pc' = [ pc EXCEPT ![p] = "ap_respond" ]
    /\ UNCHANGED <<last, storeVars, agentPayVars, gateVars, uniVars, sessVars,
                   aiVars, meterVars, multiVars, lateVars>>

\* remaining is read from updatedPreAuth (0 when it is nil), outside the
\* store's mutex; the payment headers are set and next.ServeHTTP runs.
AgentPayRespond(p) ==
    /\ pc[p] = "ap_respond"
    /\ apResp' = [ NoAgentPayResponse EXCEPT
                     !.served = TRUE, !.status = StatusOK, !.forwarded = TRUE,
                     !.calls = loc[p].calls \o <<"next">>,
                     !.method = "pre-auth",
                     !.remaining = IF loc[p].budget = NilBudget THEN 0
                                   ELSE Deref(loc[p].budget).Remaining,
                     !.deducted = UniPricePerRequest,
                     !.req = apReq[p] ]
    /\ apReq' = [ apReq EXCEPT ![p] = NoAgentPayRequest ]
    /\ pc' = [ pc EXCEPT ![p] = "idle" ]
    /\ loc' = [ loc EXCEPT ![p] = NoLocals ]
    /\ UNCHANGED <<apCfg, last, storeVars, gateVars, uniVars, sessVars, aiVars,
                   meterVars, multiVars, lateVars>>

\* The request was not paid from a pre-authorized budget: it is answered
\* 402 when the agent's own budget (X-Agent-Budget) is below the price, and
\* handed to unified.ServeHTTP otherwise, which reads the proof headers uni
\* and waits for the replies of the verifier and of the capture.
AgentPayFallback(p, uni, verifyReply, captureReply) ==
    /\ pc[p] = "ap_fallback"
    /\ uni.path = apReq[p].uni.path
    /\ MadeTogether(apReq[p]) => uni = apReq[p].uni
    /\ LET r == [ apReq[p] EXCEPT !.uni = uni ]
           u == UnifiedPaymentMiddleware(uni, uCfg, verifyReply, captureReply)
       IN  apResp' =
             IF r.budget > 0 /\ r.budget < UniPricePerRequest
             THEN [ NoAgentPayResponse EXCEPT
                      !.served = TRUE, !.status = StatusPaymentRequired,
                      !.calls = loc[p].calls \o <<"insufficientAgentBudget">>,
                      !.req = apReq[p] ]
             ELSE [ ViaUnified(loc[p].calls, u) EXCEPT !.req = r ]
    /\ apReq' = [ apReq EXCEPT ![p] = NoAgentPayRequest ]
    /\ pc' = [ pc EXCEPT ![p] = "idle" ]
    /\ loc' = [ loc EXCEPT ![p] = NoLocals ]
    /\ UNCHANGED <<apCfg, last, storeVars, gateVars, uniVars, sessVars, aiVars,
                   meterVars, multiVars, lateVars>>

----------------------------------------------------------------------------
(* MultiSchemeMiddleware with its SchemeRegistry.  A network is a pair of   *)
(* the CAIP-2 namespace with its colon and the reference ("eip155:",        *)
(* "8453"); a token is the sequence of its transport encoding, of "json" or *)
(* "text" for what it decodes to, of the scheme and of the network of the   *)
(* payload.                                                                 *)

SchemeExact == "exact"
SchemeUpto == "upto"
SchemeStripePayment == "stripe-payment"

NetworkBaseMainnet == <<"eip155:", "8453">>
NetworkEthereumMainnet == <<"eip155:", "1">>
NetworkBaseSepolia == <<"eip155:", "84532">>
NetworkOptimism == <<"eip155:", "10">>
NetworkArbitrum == <<"eip155:", "42161">>
NetworkPolygon == <<"eip155:", "137">>
NetworkEVMWildcard == <<"eip155:", "*">>
NetworkSolanaMainnet == <<"solana:", "5eykt4UsFv8P8NJdTREpY1vzqKqZKvdp">>
NetworkStripe == <<"stripe:", "live">>
NetworkStripeTest == <<"stripe:", "test">>

MultiSchemes == { SchemeExact, SchemeUpto, SchemeStripePayment, "" }
MultiNetworks ==
    { NetworkBaseMainnet, NetworkSolanaMainnet, NetworkStripe, NetworkStripeTest,
      EmptyString }

\* Values of a proof header: absent, base64 or raw text that is not JSON,
\* and a JSON payload in standard base64 or as raw JSON.
MultiTokens ==
    { EmptyString, <<"base64", "text">>, <<"raw", "text">> }
    \cup { <<enc, "json", scheme>> \o network :
             enc \in { "base64", "raw" }, scheme \in MultiSchemes,
             network \in MultiNetworks }

MultiRequests ==
    [ path : UniPaths, sig : MultiTokens,
      xpay : { EmptyString, <<"base64", "json", SchemeExact>> \o NetworkBaseMainnet },
      auth : { EmptyString }, xtok : { EmptyString }, query : { EmptyString } ]

\* The schemes: an ExactEVMScheme, and a StripeScheme with its Sandbox flag.
\* Type: what the scheme's Type() returns.
ExactEVMScheme == [ Type |-> SchemeExact, Sandbox |-> FALSE ]
StripeScheme(sandbox) == [ Type |-> SchemeStripePayment, Sandbox |-> sandbox ]
Schemes == { ExactEVMScheme, StripeScheme(FALSE), StripeScheme(TRUE) }

\* The maps from Type() to a scheme, as the sets of their values.
SchemeRegistries ==
    { reg \in SUBSET Schemes : \A a, b \in reg : a.Type = b.Type => a = b }

MultiConfigs ==
    [ ExemptPaths : { UniExemptPaths },
      AcceptedMethods : { << <<"Bearer">> >> },
      registry : SchemeRegistries ]
DefaultMultiConfig ==
    [ ExemptPaths |-> UniExemptPaths, AcceptedMethods |-> << <<"Bearer">> >>,
      registry |-> {} ]

NoPayload == [ err |-> TRUE, Scheme |-> "", Network |-> EmptyString ]

\* parsePaymentPayload
parsePaymentPayload(token) ==
    IF Len(token) >= 3 /\ token[2] = "json"
    THEN [ err |-> FALSE, Scheme |-> token[3],
           Network |-> SubSeq(token, 4, Len(token)) ]
    ELSE NoPayload

\* SchemeRegistry.Get: the scheme stored under the type, if any
SchemeGet(registry, schemeType) == { s \in registry : s.Type = schemeType }
SchemeRegistered(registry, schemeType) == SchemeGet(registry, schemeType) # {}

\* ExactEVMScheme.SupportedNetworks, StripeScheme.SupportedNetworks
SupportedNetworks(scheme) ==
    IF scheme.Type = SchemeExact
    THEN { NetworkEthereumMainnet, NetworkBaseMainnet, NetworkBaseSepolia,
           NetworkOptimism, NetworkArbitrum, NetworkPolygon, NetworkEVMWildcard }
    ELSE IF scheme.Sandbox THEN { NetworkStripeTest }
    ELSE { NetworkStripe }

isWildcardMatch_PrefixItself(pattern, network) ==
    /\ Len(pattern) >= 2 /\ pattern[Len(pattern)] = "*"
    /\ Len(network) >= Len(pattern) - 1
    /\ SubSeq(network, 1, Len(pattern) - 1) = SubSeq(pattern, 1, Len(pattern) - 1)

\* isWildcardMatch: the pattern ends in '*' and has at least one symbol
\* before it; the network is longer than that prefix and begins with it.
isWildcardMatch(pattern, network) ==
    /\ Len(pattern) >= 2 /\ pattern[Len(pattern)] = "*"
    /\ Len(network) > Len(pattern) - 1
    /\ SubSeq(network, 1, Len(pattern) - 1) = SubSeq(pattern, 1, Len(pattern) - 1)

\* a network the scheme lists, literally or by its wildcard
SchemeSupportsNetwork(scheme, network) ==
    \E n \in SupportedNetworks(scheme) :
        n = network \/ isWildcardMatch(n, network)

\* ExactEVMScheme.Verify, StripeScheme.Verify: (result.Valid, err != nil)
SchemeVerify(schemeType, payload) ==
    IF schemeType = SchemeExact THEN [ Valid |-> TRUE, err |-> FALSE ]
    ELSE [ Valid |-> FALSE, err |-> TRUE ]

NoMultiResponse ==
    [ served |-> FALSE, status |-> 0, forwarded |-> FALSE, calls |-> <<>>,
      payload |-> NoPayload ]

\* The handler of MultiSchemeMiddleware.
MultiSchemeMiddleware(r, config) ==
    LET token == extractPaymentToken(r, config.AcceptedMethods)
        payload == parsePaymentPayload(token)
        v == SchemeVerify(payload.Scheme, payload)
        Rejected(calls, pl) ==
            [ NoMultiResponse EXCEPT
                !.served = TRUE, !.status = StatusPaymentRequired,
                !.calls = calls \o <<"sendMultiSchemePaymentRequired">>,
                !.payload = pl ]
    IN  IF isExemptPath(r.path, config.ExemptPaths)
        THEN [ NoMultiResponse EXCEPT !.served = TRUE, !.status = StatusOK,
                                      !.forwarded = TRUE, !.calls = <<"next">> ]
        ELSE IF token = EmptyString THEN Rejected(<<>>, NoPayload)
        ELSE IF payload.err THEN Rejected(<<"parsePaymentPayload">>, NoPayload)
        ELSE IF ~SchemeRegistered(config.registry, payload.Scheme)
        THEN Rejected(<<"parsePaymentPayload">>, payload)
        ELSE IF v.err \/ ~v.Valid
        THEN Rejected(<<"parsePaymentPayload", "Verify">>, payload)
        ELSE [ NoMultiResponse EXCEPT
                 !.served = TRUE, !.status = StatusOK, !.forwarded = TRUE,
                 !.calls = <<"parsePaymentPayload", "Verify", "next">>,
                 !.payload = payload ]

\* One request served by MultiSchemeMiddleware.
MultiServe ==
    /\ ~msResp.served
    /\ \E r \in MultiRequests :
          /\ msReq' = r
          /\ msResp' = MultiSchemeMiddleware(r, msCfg)
    /\ UNCHANGED <<msCfg, coreVars, meterVars, agentPayVars, lateVars>>

----------------------------------------------------------------------------
(* SchemeRegistry and RailRegistry.  SchemeRegistry guards its map with a    *)
(* sync.RWMutex; RailRegistry has no lock, so that a read of its map while   *)
(* Register assigns to it is a data race on a Go map: the runtime stops the  *)
(* process ("fatal error: concurrent map read and map write"), or the read   *)
(* goes through and sees the map before the assignment, after it, or in the  *)
(* middle of it.                                                             *)

RegSchemeTypes == { SchemeExact, SchemeStripePayment }
RegRailIDs == { "stripe", "evm-crypto" }
RegNetworks == { NetworkBaseMainnet, NetworkStripe, NetworkStripeTest }

\* What a task inside Register is storing: a rail under its id, or a scheme.
NoRegLoc == [ id |-> "", scheme |-> ExactEVMScheme ]

\* res: what the call returned (the entry found, the listing, the answer);
\* consistent: what it returns on the map before and on the map after the
\* registrations under way; fatal: the runtime stopped the process.
NoRegRead ==
    [ reg |-> "", op |-> "", arg |-> <<>>, res |-> {}, consistent |-> {},
      fatal |-> FALSE ]

\* Get, List and SupportsNetwork as functions of the map's keys.
RegGet(entries, id) == entries \cap { id }
RegList(entries) == entries
RegSupportsNetwork(entries, network) ==
    { TRUE } \cap { \E s \in entries : SchemeSupportsNetwork(s, network) }

\* SchemeRegistry.Register: r.mu.Lock()
SchemeRegisterBegin(p, scheme) ==
    /\ regPc[p] = "idle" /\ srLock = 0
    /\ srLock' = p
    /\ regPc' = [ regPc EXCEPT ![p] = "scheme_write" ]
    /\ regLoc' = [ regLoc EXCEPT ![p] = [ NoRegLoc EXCEPT !.scheme = scheme ] ]
    /\ UNCHANGED <<schemes, rails, regLast, coreVars, meterVars, agentPayVars,
                   multiVars,
                   tailVars>>

\* r.schemes[scheme.Type()] = scheme, in the place of the scheme stored
\* under that type before; the deferred Unlock
SchemeRegisterEnd(p) ==
    /\ regPc[p] = "scheme_write"
    /\ schemes' = ( schemes \ SchemeGet(schemes, regLoc[p].scheme.Type) )
                      \cup { regLoc[p].scheme }
    /\ srLock' = 0
    /\ regPc' = [ regPc EXCEPT ![p] = "idle" ]
    /\ regLoc' = [ regLoc EXCEPT ![p] = NoRegLoc ]
    /\ UNCHANGED <<rails, regLast, coreVars, meterVars, agentPayVars, multiVars,
                   tailVars>>

\* SchemeRegistry.Get, List, SupportsNetwork: under r.mu.RLock(), which
\* waits while a writer holds the mutex.
SchemeRead(p, op, arg) ==
    /\ regPc[p] = "idle" /\ srLock = 0
    /\ LET res == IF op = "Get" THEN SchemeGet(schemes, arg)
                  ELSE IF op = "List" THEN RegList(schemes)
                  ELSE RegSupportsNetwork(schemes, arg)
       IN  regLast' = [ reg |-> "scheme", op |-> op, arg |-> << arg >>,
                        res |-> res, consistent |-> { res }, fatal |-> FALSE ]
    /\ UNCHANGED <<schemes, srLock, rails, regPc, regLoc, coreVars, meterVars,
                   agentPayVars, multiVars,
                   tailVars>>

\* The tasks inside RailRegistry.Register, and the ids they assign.
RailWriters == { q \in Procs : regPc[q] = "rail_write" }
RailsBeingWritten == { regLoc[q].id : q \in RailWriters }

\* RailRegistry.Register: the assignment r.rails[rail.ID()] = rail begins.
\* Beside another writer the runtime may stop the process ("concurrent map
\* writes").
RailRegisterBegin(p, id, detected) ==
    /\ regPc[p] = "idle"
    /\ IF detected /\ RailWriters # {}
       THEN /\ regLast' = [ NoRegRead EXCEPT !.reg = "rail", !.op = "Register",
                                             !.fatal = TRUE ]
            /\ UNCHANGED <<regPc, regLoc>>
       ELSE /\ regPc' = [ regPc EXCEPT ![p] = "rail_write" ]
            /\ regLoc' = [ regLoc EXCEPT ![p] = [ NoRegLoc EXCEPT !.id = id ] ]
            /\ UNCHANGED regLast
    /\ UNCHANGED <<schemes, srLock, rails, coreVars, meterVars, agentPayVars,
                   multiVars,
                   tailVars>>

\* ... and is done.
RailRegisterEnd(p) ==
    /\ regPc[p] = "rail_write"
    /\ rails' = rails \cup { regLoc[p].id }
    /\ regPc' = [ regPc EXCEPT ![p] = "idle" ]
    /\ regLoc' = [ regLoc EXCEPT ![p] = NoRegLoc ]
    /\ UNCHANGED <<schemes, srLock, regLast, coreVars, meterVars, agentPayVars,
                   multiVars,
                   tailVars>>

\* RailRegistry.Get and List.  seen: the keys the read finds in the map, any
\* part of them when an assignment is under way; detected: the runtime
\* notices the writer.
RailRead(p, op, arg, seen, detected) ==
    /\ regPc[p] = "idle"
    /\ IF RailWriters = {}
       THEN seen = rails /\ ~detected
       ELSE seen \subseteq rails \cup RailsBeingWritten
    /\ LET f(entries) == IF op = "Get" THEN RegGet(entries, arg)
                         ELSE RegList(entries)
       IN  regLast' = [ reg |-> "rail", op |-> op, arg |-> << arg >>,
                        res |-> IF detected THEN {} ELSE f(seen),
                        consistent |-> { f(rails), f(rails \cup RailsBeingWritten) },
                        fatal |-> detected ]
    /\ UNCHANGED <<schemes, srLock, rails, regPc, regLoc, coreVars, meterVars,
                   agentPayVars, multiVars,
                   tailVars>>

\* isWildcardMatch applied to a pattern and a network, each a string of at
\* most MaxNetworkLen symbols of NetworkSymbols or one of the named ones
\* ("fam:*" and the networks it is tried on).
MaxNetworkLen == 3
NetworkSymbols == { "f", ":", "1", "*" }
NetworkStrings ==
    UNION { [ 1..n -> NetworkSymbols ] : n \in 0..MaxNetworkLen }
    \cup { <<"f", "a", "m", ":", "*">>, <<"f", "a", "m", ":", "1", "2", "3">>,
           <<"f", "a", "m", ":", "a", "b", "c">>,
           <<"o", "t", "h", "e", "r", ":", "1", "2", "3">>, <<"f", "a", "m">>,
           <<"f", "a", "m", ":">> }

WildcardCall(pattern, network) ==
    /\ regLast = NoRegRead
    /\ regLast' = [ NoRegRead EXCEPT !.reg = "network", !.op = "isWildcardMatch",
                       !.arg = << pattern, network >>,
                       !.res = { isWildcardMatch(pattern, network) } ]
    /\ UNCHANGED <<schemes, srLock, rails, regPc, regLoc, coreVars, meterVars,
                   agentPayVars, multiVars,
                   tailVars>>

----------------------------------------------------------------------------
(* EdgeHandler (edge.go) *)

EdgePaths == { <<"/health">>, <<"/api", "/data">> }

\* Values of a token-carrying header, query parameter or cookie.
EdgeTokens == { EmptyString, <<"bad">> }

\* Values of the Authorization header.
EdgeAuthHeaders ==
    { EmptyString,
      <<"Bearer", " ", "valid_", "x">>,
      <<"X402", " ", "tok1">>,
      <<"Token", " ">>,
      <<"Basic", " ", "valid_", "x">> }

\* r.Cookie("x402_token"): absent, or present with a value.
NoCookie == [ set |-> FALSE, value |-> EmptyString ]
EdgeCookies == { NoCookie, [ set |-> TRUE, value |-> <<"valid_", "x">> ] }

NoEdgeRequest ==
    [ path |-> EmptyString, auth |-> EmptyString, xpay |-> EmptyString,
      x402 |-> EmptyString, query |-> EmptyString, cookie |-> NoCookie ]

EdgeRequests ==
    [ path : EdgePaths, auth : EdgeAuthHeaders, xpay : EdgeTokens,
      x402 : EdgeTokens, query : EdgeTokens, cookie : EdgeCookies ]

DefaultEdgeConfig == [ ExemptPaths |-> <<>>, ValidTokens |-> <<>> ]

EdgeConfigs ==
    [ ExemptPaths : { <<>>, << <<"/health">> >> },
      ValidTokens : { <<>>, << <<"tok1">> >> } ]

\* NewEdgeHandler: the token set built from config.ValidTokens.
NewEdgeHandler(config) ==
    [ config |-> config,
      tokenSet |-> { config.ValidTokens[i] : i \in 1..Len(config.ValidTokens) } ]

\* []string{"Bearer ", "Token ", "X402 "}
EdgeAuthPrefixes == << <<"Bearer", " ">>, <<"Token", " ">>, <<"X402", " ">> >>

\* EdgeHandler.ExtractToken
ExtractToken(r) ==
    LET matching == { i \in 1..Len(EdgeAuthPrefixes) :
                        HasPrefix(r.auth, EdgeAuthPrefixes[i]) }
    IN  IF r.auth # EmptyString /\ matching # {}
        THEN TrimPrefix(r.auth, EdgeAuthPrefixes[Min(matching)])
        ELSE IF r.xpay # EmptyString THEN r.xpay
        ELSE IF r.x402 # EmptyString THEN r.x402
        ELSE IF r.query # EmptyString THEN r.query
        ELSE IF r.cookie.set THEN r.cookie.value
        ELSE EmptyString

\* EdgeHandler.ShouldRequirePayment: (false, "") on an exempt path,
\* (true, "") without a token, (false, token) with one.
ShouldRequirePayment(h, r) ==
    IF \E i \in 1..Len(h.config.ExemptPaths) :
           HasPrefix(r.path, h.config.ExemptPaths[i])
    THEN [ requiresPayment |-> FALSE, token |-> EmptyString ]
    ELSE IF ExtractToken(r) = EmptyString
    THEN [ requiresPayment |-> TRUE, token |-> EmptyString ]
    ELSE [ requiresPayment |-> FALSE, token |-> ExtractToken(r) ]

\* EdgeHandler.VerifyToken
VerifyToken(h, token) ==
    IF h.tokenSet # {} THEN token \in h.tokenSet
    ELSE HasPrefix(token, <<"valid_">>)

\* paymentRequired: the headers of PaymentRequiredHeaders and the body of
\* PaymentRequiredJSON were written; verified: the headers of SuccessHeaders.
NoEdgeResponse ==
    [ served |-> FALSE, handler |-> "", status |-> 0, forwarded |-> FALSE,
      paymentRequired |-> FALSE, verified |-> FALSE ]

\* The handler WrapHandler returns; next answers 200.
WrapHandler(h, r) ==
    LET s == ShouldRequirePayment(h, r)
    IN  IF ~s.requiresPayment
        THEN [ NoEdgeResponse EXCEPT !.served = TRUE, !.handler = "WrapHandler",
                                     !.status = StatusOK, !.forwarded = TRUE ]
        ELSE IF s.token = EmptyString \/ ~VerifyToken(h, s.token)
        THEN [ NoEdgeResponse EXCEPT !.served = TRUE, !.handler = "WrapHandler",
                                     !.status = StatusPaymentRequired,
                                     !.paymentRequired = TRUE ]
        ELSE [ NoEdgeResponse EXCEPT !.served = TRUE, !.handler = "WrapHandler",
                                     !.status = StatusOK, !.forwarded = TRUE,
                                     !.verified = TRUE ]

\* EdgeHandler.ServeHTTP: the gateway mode, without a wrapped handler.
ServeHTTP(h, r) ==
    LET s == ShouldRequirePayment(h, r)
    IN  IF ~s.requiresPayment
        THEN [ NoEdgeResponse EXCEPT !.served = TRUE, !.handler = "ServeHTTP",
                                     !.status = StatusOK ]
        ELSE IF s.token = EmptyString \/ ~VerifyToken(h, s.token)
        THEN [ NoEdgeResponse EXCEPT !.served = TRUE, !.handler = "ServeHTTP",
                                     !.status = StatusPaymentRequired,
                                     !.paymentRequired = TRUE ]
        ELSE [ NoEdgeResponse EXCEPT !.served = TRUE, !.handler = "ServeHTTP",
                                     !.status = StatusOK, !.verified = TRUE ]

\* The handler keeps no state between requests: one request per handler
\* shows all it can do.
EdgeWrapServe ==
    /\ ~eResp.served
    /\ \E r \in EdgeRequests :
          /\ eReq' = r
          /\ eResp' = WrapHandler(NewEdgeHandler(eCfg), r)
    /\ UNCHANGED <<eCfg, coreVars, meterVars, agentPayVars, multiVars, regVars, postVars,
                   sessStoreVars, mcpVars>>

EdgeServe ==
    /\ ~eResp.served
    /\ \E r \in EdgeRequests :
          /\ eReq' = r
          /\ eResp' = ServeHTTP(NewEdgeHandler(eCfg), r)
    /\ UNCHANGED <<eCfg, coreVars, meterVars, agentPayVars, multiVars, regVars, postVars,
                   sessStoreVars, mcpVars>>

----------------------------------------------------------------------------
(* InMemorySessionStore with deletion and the expiry sweep (session.go).    *)
(* The map holds pointers: a request that got a *Session from GetSession    *)
(* keeps it when the map's entry is removed.                                *)

\* The Session values a run allocates.
SessObjs == { 1, 2 }
NoObj == 0

\* "s1" is an id the caller of CreateSession chose; of the others
\* generateSessionID returns one that was not returned before.
CallerSessionIDs == { "s1" }
GeneratedSessionIDs == { "sess_a", "sess_b" }
SessStoreIDs == CallerSessionIDs \cup GeneratedSessionIDs

\* session: the pointer GetSession returned; used: the value of
\* session.UsedRequests the increment loaded.
NoSessPtr == [ session |-> NoObj, used |-> 0 ]

\* generateSessionID: 16 random bytes, an id no session has had.
generateSessionID ==
    CHOOSE id \in GeneratedSessionIDs :
        \A o \in SessObjs : ssObjs[o].ID # id

\* InMemorySessionStore.CreateSession
StoreCreateSession(p, id, expires) ==
    /\ ssPc[p] = "idle"
    /\ \E o \in SessObjs :
          /\ ssObjs[o] = NoSession
          /\ \A q \in SessObjs : q < o => ssObjs[q] # NoSession
          /\ LET sid == IF id = NoID THEN generateSessionID ELSE id
             IN  /\ ssObjs' = [ ssObjs EXCEPT ![o] =
                      [ ID |-> sid, Active |-> TRUE, ExpiresAt |-> expires,
                        SessionType |-> SessionTypeRequests, MaxRequests |-> 2,
                        UsedRequests |-> 0, AllowedEndpoints |-> <<>> ] ]
                 /\ ssMap' = [ ssMap EXCEPT ![sid] = o ]
    /\ UNCHANGED <<ssPc, ssLoc, coreVars, meterVars, agentPayVars, multiVars,
                   regVars, postVars, edgeVars,
                   mcpVars>>

\* InMemorySessionStore.DeleteSession
StoreDeleteSession(p, id) ==
    /\ ssPc[p] = "idle"
    /\ ssMap' = [ ssMap EXCEPT ![id] = NoObj ]
    /\ UNCHANGED <<ssObjs, ssPc, ssLoc, coreVars, meterVars, agentPayVars,
                   multiVars, regVars, postVars, edgeVars,
                   mcpVars>>

\* InMemorySessionStore.CleanExpired
StoreCleanExpired(p) ==
    /\ ssPc[p] = "idle"
    /\ ssMap' = [ id \in SessStoreIDs |->
                    IF ssMap[id] # NoObj /\ ssObjs[ssMap[id]].ExpiresAt < sNow
                    THEN NoObj ELSE ssMap[id] ]
    /\ UNCHANGED <<ssObjs, ssPc, ssLoc, coreVars, meterVars, agentPayVars,
                   multiVars, regVars, postVars, edgeVars,
                   mcpVars>>

\* SessionMiddleware up to config.Store.GetSession returning the session;
\* an id the store does not hold is answered at once.
StoreGetSession(p, id) ==
    /\ ssPc[p] = "idle"
    /\ ssMap[id] # NoObj
    /\ ssLoc' = [ ssLoc EXCEPT ![p] = [ NoSessPtr EXCEPT !.session = ssMap[id] ] ]
    /\ ssPc' = [ ssPc EXCEPT ![p] = "validate" ]
    /\ UNCHANGED <<ssObjs, ssMap, coreVars, meterVars, agentPayVars, multiVars,
                   regVars, postVars, edgeVars,
                   mcpVars>>

\* validateSession(session, r.URL.Path), reading through the pointer.
StoreValidate(p) ==
    /\ ssPc[p] = "validate"
    /\ IF validateSession(ssObjs[ssLoc[p].session], <<"/api", "/data">>, sNow) # ""
       THEN /\ ssPc' = [ ssPc EXCEPT ![p] = "idle" ]
            /\ ssLoc' = [ ssLoc EXCEPT ![p] = NoSessPtr ]
       ELSE /\ ssPc' = [ ssPc EXCEPT ![p] = "load_used" ]
            /\ UNCHANGED ssLoc
    /\ UNCHANGED <<ssObjs, ssMap, coreVars, meterVars, agentPayVars, multiVars,
                   regVars, postVars, edgeVars,
                   mcpVars>>

\* session.UsedRequests++: the load, ...
StoreLoadUsed(p) ==
    /\ ssPc[p] = "load_used"
    /\ ssLoc' = [ ssLoc EXCEPT ![p].used = ssObjs[ssLoc[p].session].UsedRequests ]
    /\ ssPc' = [ ssPc EXCEPT ![p] = "store_used" ]
    /\ UNCHANGED <<ssObjs, ssMap, coreVars, meterVars, agentPayVars, multiVars,
                   regVars, postVars, edgeVars,
                   mcpVars>>

\* ... and the store, outside the store's mutex.
StoreStoreUsed(p) ==
    /\ ssPc[p] = "store_used"
    /\ ssObjs' = [ ssObjs EXCEPT ![ssLoc[p].session].UsedRequests =
                                    ssLoc[p].used + 1 ]
    /\ ssPc' = [ ssPc EXCEPT ![p] = "update" ]
    /\ UNCHANGED <<ssMap, ssLoc, coreVars, meterVars, agentPayVars, multiVars,
                   regVars, postVars, edgeVars,
                   mcpVars>>

\* config.Store.UpdateSession(session), whose error is dropped; then the
\* headers are set and next.ServeHTTP answers.
StoreUpdateSession(p) ==
    /\ ssPc[p] = "update"
    /\ LET id == ssObjs[ssLoc[p].session].ID
       IN  ssMap' = IF ssMap[id] = NoObj THEN ssMap
                    ELSE [ ssMap EXCEPT ![id] = ssLoc[p].session ]
    /\ ssPc' = [ ssPc EXCEPT ![p] = "idle" ]
    /\ ssLoc' = [ ssLoc EXCEPT ![p] = NoSessPtr ]
    /\ UNCHANGED <<ssObjs, coreVars, meterVars, agentPayVars, multiVars,
                   regVars, postVars, edgeVars,
                   mcpVars>>

----------------------------------------------------------------------------
(* The MCP server's session budget (mcp/server.go): x402_budget and         *)
(* x402_call, each tool call on a goroutine of its own under ListenHTTP.    *)

\* A topup is not taken once the total would pass this.
MaxMcpTotal == 150

\* The Budget values: one in the map and one for each call under way.
McpObjs == { 1, 2, 3 }

\* The amount argument of x402_budget; absent, create takes
\* config.DefaultBudget, here as the caller of NewServer set it, and topup 0.
McpDefaultBudget == 100
McpAmounts == { -50, 0, 50 }

\* What the API answers to the first, unpaid request of x402_call: another
\* status than 402, or 402 with the maxAmountRequired of its first offer.
McpReplies ==
    { [ status |-> StatusOK, cost |-> 0 ],
      [ status |-> StatusPaymentRequired, cost |-> 40 ],
      [ status |-> StatusPaymentRequired, cost |-> 60 ] }

\* The max_cost argument of x402_call, 0 when absent.
McpMaxCosts == { 0, 50 }

NoMcpBudget ==
    [ SessionID |-> NoID, Total |-> 0, Spent |-> 0, Remaining |-> 0,
      Transactions |-> 0 ]

NoMcpCall == [ budget |-> NoObj, cost |-> 0, result |-> "" ]

\* A Budget value nothing refers to.
McpFree ==
    { o \in McpObjs : o # mcpMap /\ \A p \in Procs : mcpLoc[p].budget # o }

\* The Budget values that the map or a call under way refers to; what
\* nothing refers to is dropped.
McpLive(objs, map, locs) ==
    [ o \in McpObjs |->
        IF o = map \/ \E p \in Procs : locs[p].budget = o THEN objs[o]
        ELSE NoMcpBudget ]

\* handleBudget, action "create": the map's entry is replaced.
HandleBudgetCreate(p, amount) ==
    /\ mcpPc[p] = "idle"
    /\ LET o == Min(McpFree)
       IN  /\ mcpObjs' = McpLive([ mcpObjs EXCEPT ![o] =
                 [ SessionID |-> "default", Total |-> amount, Spent |-> 0,
                   Remaining |-> amount, Transactions |-> 0 ] ], o, mcpLoc)
           /\ mcpMap' = o
    /\ mcpLoc' = [ mcpLoc EXCEPT ![p] = [ NoMcpCall EXCEPT !.result = "created" ] ]
    /\ UNCHANGED <<mcpPc, coreVars, meterVars, agentPayVars, multiVars, regVars, postVars,
                   edgeVars, sessStoreVars>>

\* handleBudget, action "topup"
HandleBudgetTopup(p, amount) ==
    /\ mcpPc[p] = "idle"
    /\ IF amount <= 0
       THEN /\ mcpLoc' = [ mcpLoc EXCEPT ![p] =
                  [ NoMcpCall EXCEPT !.result = "amount is required for topup" ] ]
            /\ UNCHANGED <<mcpObjs, mcpMap>>
       ELSE LET o == IF mcpMap = NoObj THEN Min(McpFree) ELSE mcpMap
                b == IF mcpMap = NoObj
                     THEN [ NoMcpBudget EXCEPT !.SessionID = "default" ]
                     ELSE mcpObjs[o]
            IN  /\ b.Total + amount <= MaxMcpTotal
                /\ mcpObjs' = [ mcpObjs EXCEPT ![o] =
                      [ b EXCEPT !.Total = @ + amount, !.Remaining = @ + amount ] ]
                /\ mcpMap' = o
                /\ mcpLoc' = [ mcpLoc EXCEPT ![p] =
                      [ NoMcpCall EXCEPT !.result = "topped up" ] ]
    /\ UNCHANGED <<mcpPc, coreVars, meterVars, agentPayVars, multiVars, regVars, postVars,
                   edgeVars, sessStoreVars>>

\* handleBudget, action "close"
HandleBudgetClose(p) ==
    /\ mcpPc[p] = "idle"
    /\ mcpMap' = NoObj
    /\ mcpObjs' = McpLive(mcpObjs, NoObj, mcpLoc)
    /\ mcpLoc' = [ mcpLoc EXCEPT ![p] =
          [ NoMcpCall EXCEPT !.result = IF mcpMap = NoObj THEN "no budget to close"
                                        ELSE "closed" ] ]
    /\ UNCHANGED <<mcpPc, coreVars, meterVars, agentPayVars, multiVars,
                   regVars, postVars, edgeVars, sessStoreVars>>

\* handleCall up to the first request: budget := s.budgets["default"] under
\* the read lock.
HandleCallLookup(p) ==
    /\ mcpPc[p] = "idle"
    /\ IF mcpMap = NoObj
       THEN /\ mcpLoc' = [ mcpLoc EXCEPT ![p] =
                  [ NoMcpCall EXCEPT !.result = "no budget set" ] ]
            /\ UNCHANGED mcpPc
       ELSE /\ mcpLoc' = [ mcpLoc EXCEPT ![p] =
                  [ NoMcpCall EXCEPT !.budget = mcpMap ] ]
            /\ mcpPc' = [ mcpPc EXCEPT ![p] = "check" ]
    /\ UNCHANGED <<mcpObjs, mcpMap, coreVars, meterVars, agentPayVars, multiVars,
                   regVars, postVars, edgeVars, sessStoreVars>>

\* The API has answered: cost > budget.Remaining and the max_cost limit are
\* checked, budget.Remaining being read without the lock.
HandleCallCheck(p, reply, maxCost) ==
    /\ mcpPc[p] = "check"
    /\ LET result ==
             IF reply.status # StatusPaymentRequired THEN "response"
             ELSE IF reply.cost > mcpObjs[mcpLoc[p].budget].Remaining
             THEN "insufficient budget"
             ELSE IF maxCost > 0 /\ reply.cost > maxCost THEN "exceeds max_cost"
             ELSE ""
       IN  IF result # ""
           THEN /\ mcpLoc' = [ mcpLoc EXCEPT ![p] =
                      [ NoMcpCall EXCEPT !.result = result ] ]
                /\ mcpPc' = [ mcpPc EXCEPT ![p] = "idle" ]
                /\ mcpObjs' = McpLive(mcpObjs, mcpMap, mcpLoc')
           ELSE /\ mcpLoc' = [ mcpLoc EXCEPT ![p].cost = reply.cost ]
                /\ mcpPc' = [ mcpPc EXCEPT ![p] = "charge" ]
                /\ UNCHANGED mcpObjs
    /\ UNCHANGED <<mcpMap, coreVars, meterVars, agentPayVars, multiVars,
                   regVars, postVars, edgeVars, sessStoreVars>>

\* The payment: budget.Spent += cost, budget.Remaining -= cost and the
\* transaction appended, under the lock.
HandleCallCharge(p) ==
    /\ mcpPc[p] = "charge"
    /\ mcpLoc' = [ mcpLoc EXCEPT ![p] =
          [ NoMcpCall EXCEPT !.result = "payment processed" ] ]
    /\ mcpObjs' = McpLive([ mcpObjs EXCEPT ![mcpLoc[p].budget] =
          [ @ EXCEPT !.Spent = @ + mcpLoc[p].cost,
                     !.Remaining = @ - mcpLoc[p].cost,
                     !.Transactions = @ + 1 ] ], mcpMap, mcpLoc')
    /\ mcpPc' = [ mcpPc EXCEPT ![p] = "idle" ]
    /\ UNCHANGED <<mcpMap, coreVars, meterVars, agentPayVars, multiVars, regVars, postVars,
                   edgeVars, sessStoreVars>>

----------------------------------------------------------------------------
(* Specifications *)

GateNext == MiddlewareServe

InitGate ==
    /\ gCfg \in GateConfigs
    /\ gReq = NoGateRequest
    /\ gResp = NoGateResponse
    /\ uCfg = {}
    /\ uReq = NoUniRequest
    /\ uResp = NoUniResponse
    /\ budgets = [ id \in BudgetIDs |-> NoBudget ]
    /\ byAgent = [ a \in AgentIDs |-> NoID ]
    /\ bLock = 0
    /\ pc = [ p \in Procs |-> "idle" ]
    /\ loc = [ p \in Procs |-> NoLocals ]
    /\ last = NoResult
    /\ sessions = [ id \in SessionIDs |-> NoSession ]
    /\ sNow = 0
    /\ sPc = [ p \in Procs |-> "idle" ]
    /\ sLoc = [ p \in Procs |-> NoSessLocals ]
    /\ sLog = <<>>
    /\ sLast = NoSessResponse
    /\ aCfg = DefaultAIConfig
    /\ idem = [ k \in IdemKeys |-> NoRecord ]
    /\ aNow = 0
    /\ aStarted = 0
    /\ aLog = <<>>
    /\ mCfg = DefaultMeterConfig
    /\ metrics = <<>>
    /\ mLock = 0
    /\ mPc = [ p \in Procs |-> "idle" ]
    /\ mLoc = [ p \in Procs |-> NoMetric ]
    /\ mStarted = 0
    /\ mOrder = <<>>
    /\ mEvicted = <<>>
    /\ mDone = {}
    /\ mLast = NoReport
    /\ apCfg = [ PreAuthStore |-> FALSE ]
    /\ apReq = [ p \in Procs |-> NoAgentPayRequest ]
    /\ apResp = NoAgentPayResponse
    /\ msCfg = DefaultMultiConfig
    /\ msReq = NoGateRequest
    /\ msResp = NoMultiResponse
    /\ schemes = {}
    /\ srLock = 0
    /\ rails = {}
    /\ regPc = [ p \in Procs |-> "idle" ]
    /\ regLoc = [ p \in Procs |-> NoRegLoc ]
    /\ regLast = NoRegRead
    /\ eCfg = DefaultEdgeConfig
    /\ eReq = NoEdgeRequest
    /\ eResp = NoEdgeResponse
    /\ ssObjs = [ o \in SessObjs |-> NoSession ]
    /\ ssMap = [ id \in SessStoreIDs |-> NoObj ]
    /\ ssPc = [ p \in Procs |-> "idle" ]
    /\ ssLoc = [ p \in Procs |-> NoSessPtr ]
    /\ mcpObjs = [ o \in McpObjs |-> NoMcpBudget ]
    /\ mcpMap = NoObj
    /\ mcpPc = [ p \in Procs |-> "idle" ]
    /\ mcpLoc = [ p \in Procs |-> NoMcpCall ]
    /\ bPosts = 0

SpecGate == InitGate /\ [][GateNext]_vars

UniNext == UnifiedServe

InitUnified ==
    /\ gCfg = DefaultGateConfig
    /\ gReq = NoGateRequest
    /\ gResp = NoGateResponse
    /\ uCfg \in UniConfigs
    /\ uReq = NoUniRequest
    /\ uResp = NoUniResponse
    /\ budgets = [ id \in BudgetIDs |-> NoBudget ]
    /\ byAgent = [ a \in AgentIDs |-> NoID ]
    /\ bLock = 0
    /\ pc = [ p \in Procs |-> "idle" ]
    /\ loc = [ p \in Procs |-> NoLocals ]
    /\ last = NoResult
    /\ sessions = [ id \in SessionIDs |-> NoSession ]
    /\ sNow = 0
    /\ sPc = [ p \in Procs |-> "idle" ]
    /\ sLoc = [ p \in Procs |-> NoSessLocals ]
    /\ sLog = <<>>
    /\ sLast = NoSessResponse
    /\ aCfg = DefaultAIConfig
    /\ idem = [ k \in IdemKeys |-> NoRecord ]
    /\ aNow = 0
    /\ aStarted = 0
    /\ aLog = <<>>
    /\ mCfg = DefaultMeterConfig
    /\ metrics = <<>>
    /\ mLock = 0
    /\ mPc = [ p \in Procs |-> "idle" ]
    /\ mLoc = [ p \in Procs |-> NoMetric ]
    /\ mStarted = 0
    /\ mOrder = <<>>
    /\ mEvicted = <<>>
    /\ mDone = {}
    /\ mLast = NoReport
    /\ apCfg = [ PreAuthStore |-> FALSE ]
    /\ apReq = [ p \in Procs |-> NoAgentPayRequest ]
    /\ apResp = NoAgentPayResponse
    /\ msCfg = DefaultMultiConfig
    /\ msReq = NoGateRequest
    /\ msResp = NoMultiResponse
    /\ schemes = {}
    /\ srLock = 0
    /\ rails = {}
    /\ regPc = [ p \in Procs |-> "idle" ]
    /\ regLoc = [ p \in Procs |-> NoRegLoc ]
    /\ regLast = NoRegRead
    /\ eCfg = DefaultEdgeConfig
    /\ eReq = NoEdgeRequest
    /\ eResp = NoEdgeResponse
    /\ ssObjs = [ o \in SessObjs |-> NoSession ]
    /\ ssMap = [ id \in SessStoreIDs |-> NoObj ]
    /\ ssPc = [ p \in Procs |-> "idle" ]
    /\ ssLoc = [ p \in Procs |-> NoSessPtr ]
    /\ mcpObjs = [ o \in McpObjs |-> NoMcpBudget ]
    /\ mcpMap = NoObj
    /\ mcpPc = [ p \in Procs |-> "idle" ]
    /\ mcpLoc = [ p \in Procs |-> NoMcpCall ]
    /\ bPosts = 0

SpecUnified == InitUnified /\ [][UniNext]_vars

\* One request, served by Middleware or by UnifiedPaymentMiddleware: the two
\* handlers that extract a proof from the headers of a request.
ExtractNext ==
    \/ ~uResp.served /\ MiddlewareServe
    \/ ~gResp.served /\ UnifiedServe

InitExtract ==
    /\ gCfg \in GateConfigs
    /\ gReq = NoGateRequest
    /\ gResp = NoGateResponse
    /\ uCfg \in UniConfigs
    /\ uReq = NoUniRequest
    /\ uResp = NoUniResponse
    /\ budgets = [ id \in BudgetIDs |-> NoBudget ]
    /\ byAgent = [ a \in AgentIDs |-> NoID ]
    /\ bLock = 0
    /\ pc = [ p \in Procs |-> "idle" ]
    /\ loc = [ p \in Procs |-> NoLocals ]
    /\ last = NoResult
    /\ sessions = [ id \in SessionIDs |-> NoSession ]
    /\ sNow = 0
    /\ sPc = [ p \in Procs |-> "idle" ]
    /\ sLoc = [ p \in Procs |-> NoSessLocals ]
    /\ sLog = <<>>
    /\ sLast = NoSessResponse
    /\ aCfg = DefaultAIConfig
    /\ idem = [ k \in IdemKeys |-> NoRecord ]
    /\ aNow = 0
    /\ aStarted = 0
    /\ aLog = <<>>
    /\ mCfg = DefaultMeterConfig
    /\ metrics = <<>>
    /\ mLock = 0
    /\ mPc = [ p \in Procs |-> "idle" ]
    /\ mLoc = [ p \in Procs |-> NoMetric ]
    /\ mStarted = 0
    /\ mOrder = <<>>
    /\ mEvicted = <<>>
    /\ mDone = {}
    /\ mLast = NoReport
    /\ apCfg = [ PreAuthStore |-> FALSE ]
    /\ apReq = [ p \in Procs |-> NoAgentPayRequest ]
    /\ apResp = NoAgentPayResponse
    /\ msCfg = DefaultMultiConfig
    /\ msReq = NoGateRequest
    /\ msResp = NoMultiResponse
    /\ schemes = {}
    /\ srLock = 0
    /\ rails = {}
    /\ regPc = [ p \in Procs |-> "idle" ]
    /\ regLoc = [ p \in Procs |-> NoRegLoc ]
    /\ regLast = NoRegRead
    /\ eCfg = DefaultEdgeConfig
    /\ eReq = NoEdgeRequest
    /\ eResp = NoEdgeResponse
    /\ ssObjs = [ o \in SessObjs |-> NoSession ]
    /\ ssMap = [ id \in SessStoreIDs |-> NoObj ]
    /\ ssPc = [ p \in Procs |-> "idle" ]
    /\ ssLoc = [ p \in Procs |-> NoSessPtr ]
    /\ mcpObjs = [ o \in McpObjs |-> NoMcpBudget ]
    /\ mcpMap = NoObj
    /\ mcpPc = [ p \in Procs |-> "idle" ]
    /\ mcpLoc = [ p \in Procs |-> NoMcpCall ]
    /\ bPosts = 0

SpecExtract == InitExtract /\ [][ExtractNext]_vars

\* The store behind AIBudgetHandler: budgets are created through the
\* handler's POST (which leaves the id to the store, so that every POST
\* replaces the budget of the one before), and deducted from and refunded
\* to by concurrent tasks.
BudgetNext ==
    \E p \in Procs :
        \/ \E decoded \in BOOLEAN, a \in OneAgent \cup { NoID },
              t \in NonNegative(BudgetTotals) :
              AIBudgetPost(p, decoded, a, t)
        \/ \E id \in BudgetIDs, amount \in NonNegative(Amounts) : DeductBegin(p, id, amount)
        \/ DeductSpent(p)
        \/ DeductCount(p)
        \/ \E id \in BudgetIDs, amount \in NonNegative(Amounts) : RefundBegin(p, id, amount)
        \/ RefundSpent(p)
        \/ EncodeRemaining(p)
        \/ EncodeSpent(p)
        \/ EncodeCount(p)

\* One task that posts budgets of any total and deducts and refunds any
\* amount, the negative ones included.
BudgetAnyNext ==
    \E p \in { 1 } :
        \/ \E a \in OneAgent, t \in BudgetTotals : AIBudgetPost(p, TRUE, a, t)
        \/ \E id \in BudgetIDs, amount \in Amounts : DeductBegin(p, id, amount)
        \/ DeductSpent(p)
        \/ DeductCount(p)
        \/ \E id \in BudgetIDs, amount \in Amounts : RefundBegin(p, id, amount)
        \/ RefundSpent(p)
        \/ EncodeRemaining(p)
        \/ EncodeSpent(p)
        \/ EncodeCount(p)

\* The same store with the readers of AIBudgetHandler's GET beside the
\* tasks that create budgets and deduct from them.
BudgetReadNext ==
    \E p \in Procs :
        \/ \E decoded \in BOOLEAN, a \in OneAgent \cup { NoID },
              t \in NonNegative(BudgetTotals) :
              AIBudgetPost(p, decoded, a, t)
        \/ \E id \in BudgetIDs, amount \in NonNegative(Amounts) : DeductBegin(p, id, amount)
        \/ DeductSpent(p)
        \/ DeductCount(p)
        \/ \E id \in BudgetIDs \cup { NoID }, a \in OneAgent \cup { NoID } :
              BudgetGet(p, id, a)
        \/ EncodeRemaining(p)
        \/ EncodeSpent(p)
        \/ EncodeCount(p)

InitBudget ==
    /\ gCfg = DefaultGateConfig
    /\ gReq = NoGateRequest
    /\ gResp = NoGateResponse
    /\ uCfg = {}
    /\ uReq = NoUniRequest
    /\ uResp = NoUniResponse
    /\ budgets = [ id \in BudgetIDs |-> NoBudget ]
    /\ byAgent = [ a \in AgentIDs |-> NoID ]
    /\ bLock = 0
    /\ pc = [ p \in Procs |-> "idle" ]
    /\ loc = [ p \in Procs |-> NoLocals ]
    /\ last = NoResult
    /\ sessions = [ id \in SessionIDs |-> NoSession ]
    /\ sNow = 0
    /\ sPc = [ p \in Procs |-> "idle" ]
    /\ sLoc = [ p \in Procs |-> NoSessLocals ]
    /\ sLog = <<>>
    /\ sLast = NoSessResponse
    /\ aCfg = DefaultAIConfig
    /\ idem = [ k \in IdemKeys |-> NoRecord ]
    /\ aNow = 0
    /\ aStarted = 0
    /\ aLog = <<>>
    /\ mCfg = DefaultMeterConfig
    /\ metrics = <<>>
    /\ mLock = 0
    /\ mPc = [ p \in Procs |-> "idle" ]
    /\ mLoc = [ p \in Procs |-> NoMetric ]
    /\ mStarted = 0
    /\ mOrder = <<>>
    /\ mEvicted = <<>>
    /\ mDone = {}
    /\ mLast = NoReport
    /\ apCfg = [ PreAuthStore |-> FALSE ]
    /\ apReq = [ p \in Procs |-> NoAgentPayRequest ]
    /\ apResp = NoAgentPayResponse
    /\ msCfg = DefaultMultiConfig
    /\ msReq = NoGateRequest
    /\ msResp = NoMultiResponse
    /\ schemes = {}
    /\ srLock = 0
    /\ rails = {}
    /\ regPc = [ p \in Procs |-> "idle" ]
    /\ regLoc = [ p \in Procs |-> NoRegLoc ]
    /\ regLast = NoRegRead
    /\ eCfg = DefaultEdgeConfig
    /\ eReq = NoEdgeRequest
    /\ eResp = NoEdgeResponse
    /\ ssObjs = [ o \in SessObjs |-> NoSession ]
    /\ ssMap = [ id \in SessStoreIDs |-> NoObj ]
    /\ ssPc = [ p \in Procs |-> "idle" ]
    /\ ssLoc = [ p \in Procs |-> NoSessPtr ]
    /\ mcpObjs = [ o \in McpObjs |-> NoMcpBudget ]
    /\ mcpMap = NoObj
    /\ mcpPc = [ p \in Procs |-> "idle" ]
    /\ mcpLoc = [ p \in Procs |-> NoMcpCall ]
    /\ bPosts = 0

SpecBudget == InitBudget /\ [][BudgetNext]_vars

SpecBudgetRead == InitBudget /\ [][BudgetReadNext]_vars
SpecBudgetAny == InitBudget /\ [][BudgetAnyNext]_vars

\* The store's operations one after the other, as one caller of the
\* PreAuthStore interface issues them: budgets of either total are created
\* under the id the caller names or the one the store generates, deducted
\* from, refunded to and deleted.
StoreTotals == { 60, 100 }

StoreOpsNext ==
    \E p \in { 1 } :
        \/ \E id \in BudgetIDs \cup { NoID }, a \in OneAgent \cup { NoID },
              t \in StoreTotals : StoreCreate(p, id, a, t)
        \/ \E id \in BudgetIDs, amount \in NonNegative(Amounts) : DeductBegin(p, id, amount)
        \/ DeductSpent(p)
        \/ DeductCount(p)
        \/ \E id \in BudgetIDs, amount \in NonNegative(Amounts) : RefundBegin(p, id, amount)
        \/ RefundSpent(p)
        \/ \E id \in BudgetIDs : StoreDelete(p, id)

InitStoreOps ==
    /\ gCfg = DefaultGateConfig
    /\ gReq = NoGateRequest
    /\ gResp = NoGateResponse
    /\ uCfg = {}
    /\ uReq = NoUniRequest
    /\ uResp = NoUniResponse
    /\ budgets = [ id \in BudgetIDs |-> NoBudget ]
    /\ byAgent = [ a \in AgentIDs |-> NoID ]
    /\ bLock = 0
    /\ pc = [ p \in Procs |-> "idle" ]
    /\ loc = [ p \in Procs |-> NoLocals ]
    /\ last = NoResult
    /\ sessions = [ id \in SessionIDs |-> NoSession ]
    /\ sNow = 0
    /\ sPc = [ p \in Procs |-> "idle" ]
    /\ sLoc = [ p \in Procs |-> NoSessLocals ]
    /\ sLog = <<>>
    /\ sLast = NoSessResponse
    /\ aCfg = DefaultAIConfig
    /\ idem = [ k \in IdemKeys |-> NoRecord ]
    /\ aNow = 0
    /\ aStarted = 0
    /\ aLog = <<>>
    /\ mCfg = DefaultMeterConfig
    /\ metrics = <<>>
    /\ mLock = 0
    /\ mPc = [ p \in Procs |-> "idle" ]
    /\ mLoc = [ p \in Procs |-> NoMetric ]
    /\ mStarted = 0
    /\ mOrder = <<>>
    /\ mEvicted = <<>>
    /\ mDone = {}
    /\ mLast = NoReport
    /\ apCfg = [ PreAuthStore |-> FALSE ]
    /\ apReq = [ p \in Procs |-> NoAgentPayRequest ]
    /\ apResp = NoAgentPayResponse
    /\ msCfg = DefaultMultiConfig
    /\ msReq = NoGateRequest
    /\ msResp = NoMultiResponse
    /\ schemes = {}
    /\ srLock = 0
    /\ rails = {}
    /\ regPc = [ p \in Procs |-> "idle" ]
    /\ regLoc = [ p \in Procs |-> NoRegLoc ]
    /\ regLast = NoRegRead
    /\ eCfg = DefaultEdgeConfig
    /\ eReq = NoEdgeRequest
    /\ eResp = NoEdgeResponse
    /\ ssObjs = [ o \in SessObjs |-> NoSession ]
    /\ ssMap = [ id \in SessStoreIDs |-> NoObj ]
    /\ ssPc = [ p \in Procs |-> "idle" ]
    /\ ssLoc = [ p \in Procs |-> NoSessPtr ]
    /\ mcpObjs = [ o \in McpObjs |-> NoMcpBudget ]
    /\ mcpMap = NoObj
    /\ mcpPc = [ p \in Procs |-> "idle" ]
    /\ mcpLoc = [ p \in Procs |-> NoMcpCall ]
    /\ bPosts = 0

SpecStoreOps == InitStoreOps /\ [][StoreOpsNext]_vars

SessNext ==
    \/ \E p \in Procs :
          \/ \E type \in SessionTypes,
                max \in SessMaxRequests, expires \in SessExpiries,
                allowed \in SessAllowedEndpoints :
                CreateSession(p, type, max, expires, allowed)
          \/ \E sid \in { NoID, UnknownSessionID } \cup SessionIDs :
                SessNoSession(p, sid)
          \/ \E sid \in SessionIDs, path \in SessPaths : SessGetSession(p, sid, path)
          \/ SessValidate(p)
          \/ SessLoadUsed(p)
          \/ SessStoreUsed(p)
          \/ SessRespond(p)
    \/ SessTick

\* Successive requests: a request is taken up when no other is under way.
SessSeqNext ==
    \/ \E p \in Procs :
          \/ \E type \in SessionTypes,
                max \in SessMaxRequests, expires \in SessExpiries,
                allowed \in SessAllowedEndpoints :
                CreateSession(p, type, max, expires, allowed)
          \/ \E sid \in { NoID, UnknownSessionID } \cup SessionIDs :
                SessNoSession(p, sid)
          \/ \E sid \in SessionIDs, path \in SessPaths :
                /\ \A q \in Procs : sPc[q] = "idle"
                /\ SessGetSession(p, sid, path)
          \/ SessValidate(p)
          \/ SessLoadUsed(p)
          \/ SessStoreUsed(p)
          \/ SessRespond(p)
    \/ SessTick

InitSession ==
    /\ gCfg = DefaultGateConfig
    /\ gReq = NoGateRequest
    /\ gResp = NoGateResponse
    /\ uCfg = {}
    /\ uReq = NoUniRequest
    /\ uResp = NoUniResponse
    /\ budgets = [ id \in BudgetIDs |-> NoBudget ]
    /\ byAgent = [ a \in AgentIDs |-> NoID ]
    /\ bLock = 0
    /\ pc = [ p \in Procs |-> "idle" ]
    /\ loc = [ p \in Procs |-> NoLocals ]
    /\ last = NoResult
    /\ sessions = [ id \in SessionIDs |-> NoSession ]
    /\ sNow = 0
    /\ sPc = [ p \in Procs |-> "idle" ]
    /\ sLoc = [ p \in Procs |-> NoSessLocals ]
    /\ sLog = <<>>
    /\ sLast = NoSessResponse
    /\ aCfg = DefaultAIConfig
    /\ idem = [ k \in IdemKeys |-> NoRecord ]
    /\ aNow = 0
    /\ aStarted = 0
    /\ aLog = <<>>
    /\ mCfg = DefaultMeterConfig
    /\ metrics = <<>>
    /\ mLock = 0
    /\ mPc = [ p \in Procs |-> "idle" ]
    /\ mLoc = [ p \in Procs |-> NoMetric ]
    /\ mStarted = 0
    /\ mOrder = <<>>
    /\ mEvicted = <<>>
    /\ mDone = {}
    /\ mLast = NoReport
    /\ apCfg = [ PreAuthStore |-> FALSE ]
    /\ apReq = [ p \in Procs |-> NoAgentPayRequest ]
    /\ apResp = NoAgentPayResponse
    /\ msCfg = DefaultMultiConfig
    /\ msReq = NoGateRequest
    /\ msResp = NoMultiResponse
    /\ schemes = {}
    /\ srLock = 0
    /\ rails = {}
    /\ regPc = [ p \in Procs |-> "idle" ]
    /\ regLoc = [ p \in Procs |-> NoRegLoc ]
    /\ regLast = NoRegRead
    /\ eCfg = DefaultEdgeConfig
    /\ eReq = NoEdgeRequest
    /\ eResp = NoEdgeResponse
    /\ ssObjs = [ o \in SessObjs |-> NoSession ]
    /\ ssMap = [ id \in SessStoreIDs |-> NoObj ]
    /\ ssPc = [ p \in Procs |-> "idle" ]
    /\ ssLoc = [ p \in Procs |-> NoSessPtr ]
    /\ mcpObjs = [ o \in McpObjs |-> NoMcpBudget ]
    /\ mcpMap = NoObj
    /\ mcpPc = [ p \in Procs |-> "idle" ]
    /\ mcpLoc = [ p \in Procs |-> NoMcpCall ]
    /\ bPosts = 0

SpecSession == InitSession /\ [][SessNext]_vars

InitSessionSeq ==
    /\ gCfg = DefaultGateConfig
    /\ gReq = NoGateRequest
    /\ gResp = NoGateResponse
    /\ uCfg = {}
    /\ uReq = NoUniRequest
    /\ uResp = NoUniResponse
    /\ budgets = [ id \in BudgetIDs |-> NoBudget ]
    /\ byAgent = [ a \in AgentIDs |-> NoID ]
    /\ bLock = 0
    /\ pc = [ p \in Procs |-> "idle" ]
    /\ loc = [ p \in Procs |-> NoLocals ]
    /\ last = NoResult
    /\ sessions = [ id \in SessionIDs |-> NoSession ]
    /\ sNow = 0
    /\ sPc = [ p \in Procs |-> "idle" ]
    /\ sLoc = [ p \in Procs |-> NoSessLocals ]
    /\ sLog = <<>>
    /\ sLast = NoSessResponse
    /\ aCfg = DefaultAIConfig
    /\ idem = [ k \in IdemKeys |-> NoRecord ]
    /\ aNow = 0
    /\ aStarted = 0
    /\ aLog = <<>>
    /\ mCfg = DefaultMeterConfig
    /\ metrics = <<>>
    /\ mLock = 0
    /\ mPc = [ p \in Procs |-> "idle" ]
    /\ mLoc = [ p \in Procs |-> NoMetric ]
    /\ mStarted = 0
    /\ mOrder = <<>>
    /\ mEvicted = <<>>
    /\ mDone = {}
    /\ mLast = NoReport
    /\ apCfg = [ PreAuthStore |-> FALSE ]
    /\ apReq = [ p \in Procs |-> NoAgentPayRequest ]
    /\ apResp = NoAgentPayResponse
    /\ msCfg = DefaultMultiConfig
    /\ msReq = NoGateRequest
    /\ msResp = NoMultiResponse
    /\ schemes = {}
    /\ srLock = 0
    /\ rails = {}
    /\ regPc = [ p \in Procs |-> "idle" ]
    /\ regLoc = [ p \in Procs |-> NoRegLoc ]
    /\ regLast = NoRegRead
    /\ eCfg = DefaultEdgeConfig
    /\ eReq = NoEdgeRequest
    /\ eResp = NoEdgeResponse
    /\ ssObjs = [ o \in SessObjs |-> NoSession ]
    /\ ssMap = [ id \in SessStoreIDs |-> NoObj ]
    /\ ssPc = [ p \in Procs |-> "idle" ]
    /\ ssLoc = [ p \in Procs |-> NoSessPtr ]
    /\ mcpObjs = [ o \in McpObjs |-> NoMcpBudget ]
    /\ mcpMap = NoObj
    /\ mcpPc = [ p \in Procs |-> "idle" ]
    /\ mcpLoc = [ p \in Procs |-> NoMcpCall ]
    /\ bPosts = 0

SpecSessionSeq == InitSessionSeq /\ [][SessSeqNext]_vars

\* One request against a session in any condition the store can hold it in:
\* UpdateSession puts whatever *Session it is handed, active or not, and
\* the requests served so far left UsedRequests below, at or (after
\* overlapping requests) above MaxRequests.
StoredSessions ==
    [ ID : SessionIDs, Active : BOOLEAN, ExpiresAt : { 1 },
      SessionType : SessionTypes,
      MaxRequests : SessMaxRequests, UsedRequests : 0..3,
      AllowedEndpoints : SessAllowedEndpoints ]

SessAnyNext ==
    \E p \in { 1 } :
        \/ \E sid \in SessionIDs, path \in SessPaths :
              /\ sLog = <<>>
              /\ SessGetSession(p, sid, path)
        \/ SessValidate(p)
        \/ SessLoadUsed(p)
        \/ SessStoreUsed(p)
        \/ SessRespond(p)
        \/ \E sid \in { NoID, UnknownSessionID } : SessNoSession(p, sid)

InitSessionAny ==
    /\ gCfg = DefaultGateConfig
    /\ gReq = NoGateRequest
    /\ gResp = NoGateResponse
    /\ uCfg = {}
    /\ uReq = NoUniRequest
    /\ uResp = NoUniResponse
    /\ budgets = [ id \in BudgetIDs |-> NoBudget ]
    /\ byAgent = [ a \in AgentIDs |-> NoID ]
    /\ bLock = 0
    /\ pc = [ p \in Procs |-> "idle" ]
    /\ loc = [ p \in Procs |-> NoLocals ]
    /\ last = NoResult
    /\ sessions \in [ SessionIDs -> StoredSessions ]
    /\ sNow \in 0..MaxTime
    /\ sPc = [ p \in Procs |-> "idle" ]
    /\ sLoc = [ p \in Procs |-> NoSessLocals ]
    /\ sLog = <<>>
    /\ sLast = NoSessResponse
    /\ aCfg = DefaultAIConfig
    /\ idem = [ k \in IdemKeys |-> NoRecord ]
    /\ aNow = 0
    /\ aStarted = 0
    /\ aLog = <<>>
    /\ mCfg = DefaultMeterConfig
    /\ metrics = <<>>
    /\ mLock = 0
    /\ mPc = [ p \in Procs |-> "idle" ]
    /\ mLoc = [ p \in Procs |-> NoMetric ]
    /\ mStarted = 0
    /\ mOrder = <<>>
    /\ mEvicted = <<>>
    /\ mDone = {}
    /\ mLast = NoReport
    /\ apCfg = [ PreAuthStore |-> FALSE ]
    /\ apReq = [ p \in Procs |-> NoAgentPayRequest ]
    /\ apResp = NoAgentPayResponse
    /\ msCfg = DefaultMultiConfig
    /\ msReq = NoGateRequest
    /\ msResp = NoMultiResponse
    /\ schemes = {}
    /\ srLock = 0
    /\ rails = {}
    /\ regPc = [ p \in Procs |-> "idle" ]
    /\ regLoc = [ p \in Procs |-> NoRegLoc ]
    /\ regLast = NoRegRead
    /\ eCfg = DefaultEdgeConfig
    /\ eReq = NoEdgeRequest
    /\ eResp = NoEdgeResponse
    /\ ssObjs = [ o \in SessObjs |-> NoSession ]
    /\ ssMap = [ id \in SessStoreIDs |-> NoObj ]
    /\ ssPc = [ p \in Procs |-> "idle" ]
    /\ ssLoc = [ p \in Procs |-> NoSessPtr ]
    /\ mcpObjs = [ o \in McpObjs |-> NoMcpBudget ]
    /\ mcpMap = NoObj
    /\ mcpPc = [ p \in Procs |-> "idle" ]
    /\ mcpLoc = [ p \in Procs |-> NoMcpCall ]
    /\ bPosts = 0

SpecSessionAny == InitSessionAny /\ [][SessAnyNext]_vars

\* Non-overlapping requests: a request or a budget top-up is taken up when
\* no other is under way, so that one goroutine at a time is at work and
\* which one it is makes no difference.
AISeqNext ==
    \/ \E p \in { 1 } :
          \/ \E a \in OneAgent, t \in AIBudgetTotals :
                /\ \A q \in Procs : pc[q] = "idle"
                /\ StoreCreate(p, NoID, a, t)
          \/ \E a \in OneAgent \cup { NoID }, k \in IdemKeys \cup { NoKey } :
                /\ \A q \in Procs : pc[q] = "idle"
                /\ AIFirstBegin(p, a, k)
          \/ AIGetBudget(p)
          \/ AICheckBudget(p)
          \/ AIDeduct(p)
          \/ DeductSpent(p)
          \/ DeductCount(p)
          \/ \E out \in AIPlainOutputs : AINext(p, out)
          \/ AIStore(p)
    \/ AITick

InitAISeq ==
    /\ gCfg = DefaultGateConfig
    /\ gReq = NoGateRequest
    /\ gResp = NoGateResponse
    /\ uCfg = {}
    /\ uReq = NoUniRequest
    /\ uResp = NoUniResponse
    /\ budgets = [ id \in BudgetIDs |-> NoBudget ]
    /\ byAgent = [ a \in AgentIDs |-> NoID ]
    /\ bLock = 0
    /\ pc = [ p \in Procs |-> "idle" ]
    /\ loc = [ p \in Procs |-> NoLocals ]
    /\ last = NoResult
    /\ sessions = [ id \in SessionIDs |-> NoSession ]
    /\ sNow = 0
    /\ sPc = [ p \in Procs |-> "idle" ]
    /\ sLoc = [ p \in Procs |-> NoSessLocals ]
    /\ sLog = <<>>
    /\ sLast = NoSessResponse
    /\ aCfg \in AIConfigs
    /\ idem = [ k \in IdemKeys |-> NoRecord ]
    /\ aNow = 0
    /\ aStarted = 0
    /\ aLog = <<>>
    /\ mCfg = DefaultMeterConfig
    /\ metrics = <<>>
    /\ mLock = 0
    /\ mPc = [ p \in Procs |-> "idle" ]
    /\ mLoc = [ p \in Procs |-> NoMetric ]
    /\ mStarted = 0
    /\ mOrder = <<>>
    /\ mEvicted = <<>>
    /\ mDone = {}
    /\ mLast = NoReport
    /\ apCfg = [ PreAuthStore |-> FALSE ]
    /\ apReq = [ p \in Procs |-> NoAgentPayRequest ]
    /\ apResp = NoAgentPayResponse
    /\ msCfg = DefaultMultiConfig
    /\ msReq = NoGateRequest
    /\ msResp = NoMultiResponse
    /\ schemes = {}
    /\ srLock = 0
    /\ rails = {}
    /\ regPc = [ p \in Procs |-> "idle" ]
    /\ regLoc = [ p \in Procs |-> NoRegLoc ]
    /\ regLast = NoRegRead
    /\ eCfg = DefaultEdgeConfig
    /\ eReq = NoEdgeRequest
    /\ eResp = NoEdgeResponse
    /\ ssObjs = [ o \in SessObjs |-> NoSession ]
    /\ ssMap = [ id \in SessStoreIDs |-> NoObj ]
    /\ ssPc = [ p \in Procs |-> "idle" ]
    /\ ssLoc = [ p \in Procs |-> NoSessPtr ]
    /\ mcpObjs = [ o \in McpObjs |-> NoMcpBudget ]
    /\ mcpMap = NoObj
    /\ mcpPc = [ p \in Procs |-> "idle" ]
    /\ mcpLoc = [ p \in Procs |-> NoMcpCall ]
    /\ bPosts = 0

SpecAISeq == InitAISeq /\ [][AISeqNext]_vars

\* Two requests one after the other with the idempotency store on, served
\* by a downstream handler of any of the behaviours of AIHandlerOutputs.
MaxReplayRequests == 2

ReplayNext ==
    \/ \E p \in { 1 } :
          \/ \E a \in OneAgent, t \in AIBudgetTotals :
                /\ \A q \in Procs : pc[q] = "idle"
                /\ StoreCreate(p, NoID, a, t)
          \/ \E a \in OneAgent \cup { NoID }, k \in IdemKeys :
                /\ \A q \in Procs : pc[q] = "idle"
                /\ aStarted < MaxReplayRequests
                /\ AIFirstBegin(p, a, k)
          \/ AIGetBudget(p)
          \/ AICheckBudget(p)
          \/ AIDeduct(p)
          \/ DeductSpent(p)
          \/ DeductCount(p)
          \/ \E out \in AIHandlerOutputs : AINext(p, out)
          \/ AIStore(p)
    \/ AITick

SpecReplay == InitAISeq /\ [][ReplayNext]_vars

\* Requests started in a run in which the store is also called directly.
MaxIdemRequests == 2

\* The idempotency store used by successive requests of AIFirstMiddleware
\* and, beside them, called directly: Set with records of the caller's, Get
\* and Delete.
IdemNext ==
    \/ \E p \in { 1 } :
          \/ \E a \in OneAgent, t \in AIBudgetTotals :
                /\ \A q \in Procs : pc[q] = "idle"
                /\ StoreCreate(p, NoID, a, t)
          \/ \E a \in OneAgent \cup { NoID }, k \in IdemKeys \cup { NoKey } :
                /\ \A q \in Procs : pc[q] = "idle"
                /\ aStarted < MaxIdemRequests
                /\ AIFirstBegin(p, a, k)
          \/ AIGetBudget(p)
          \/ AICheckBudget(p)
          \/ AIDeduct(p)
          \/ DeductSpent(p)
          \/ DeductCount(p)
          \/ \E out \in AIPlainOutputs : AINext(p, out)
          \/ AIStore(p)
    \/ AITick
    \/ \E k \in IdemKeys, record \in IdemRecords : IdemStoreSet(k, record)
    \/ \E k \in IdemKeys : IdemStoreGet(k)
    \/ \E k \in IdemKeys : IdemStoreDelete(k)

SpecIdem == InitAISeq /\ [][IdemNext]_vars

\* Overlapping requests of one agent against one budget, with and without an
\* idempotency key: each goroutine runs AIFirstMiddleware from its start to
\* its end.
PreAuthOnlyConfig ==
    [ EnablePreAuth |-> TRUE, EnableIdempotency |-> FALSE, IdempotencyTTL |-> 0 ]

\* Idempotency is off, or on with the default validity.
AIConcConfigs ==
    { PreAuthOnlyConfig,
      [ EnablePreAuth |-> TRUE, EnableIdempotency |-> TRUE, IdempotencyTTL |-> 0 ] }

\* Budgets that pay for one request and for two.
AIConcTotals == { 100, 120 }

\* Requests that the overlapping tasks start in one run.
MaxAIConcRequests == 2

AIConcNext ==
    \E p \in Procs :
        \/ \E a \in OneAgent, t \in AIConcTotals : AIBudgetPost(p, TRUE, a, t)
        \/ EncodeRemaining(p)
        \/ EncodeSpent(p)
        \/ EncodeCount(p)
        \/ \E a \in OneAgent, k \in IdemKeys \cup { NoKey } :
              aStarted < MaxAIConcRequests /\ AIFirstBegin(p, a, k)
        \/ AIGetBudget(p)
        \/ AICheckBudget(p)
        \/ AIDeduct(p)
        \/ DeductSpent(p)
        \/ DeductCount(p)
        \/ \E out \in AIPlainOutputs : AINext(p, out)
        \/ AIStore(p)

InitAIConc ==
    /\ gCfg = DefaultGateConfig
    /\ gReq = NoGateRequest
    /\ gResp = NoGateResponse
    /\ uCfg = {}
    /\ uReq = NoUniRequest
    /\ uResp = NoUniResponse
    /\ budgets = [ id \in BudgetIDs |-> NoBudget ]
    /\ byAgent = [ a \in AgentIDs |-> NoID ]
    /\ bLock = 0
    /\ pc = [ p \in Procs |-> "idle" ]
    /\ loc = [ p \in Procs |-> NoLocals ]
    /\ last = NoResult
    /\ sessions = [ id \in SessionIDs |-> NoSession ]
    /\ sNow = 0
    /\ sPc = [ p \in Procs |-> "idle" ]
    /\ sLoc = [ p \in Procs |-> NoSessLocals ]
    /\ sLog = <<>>
    /\ sLast = NoSessResponse
    /\ aCfg \in AIConcConfigs
    /\ idem = [ k \in IdemKeys |-> NoRecord ]
    /\ aNow = 0
    /\ aStarted = 0
    /\ aLog = <<>>
    /\ mCfg = DefaultMeterConfig
    /\ metrics = <<>>
    /\ mLock = 0
    /\ mPc = [ p \in Procs |-> "idle" ]
    /\ mLoc = [ p \in Procs |-> NoMetric ]
    /\ mStarted = 0
    /\ mOrder = <<>>
    /\ mEvicted = <<>>
    /\ mDone = {}
    /\ mLast = NoReport
    /\ apCfg = [ PreAuthStore |-> FALSE ]
    /\ apReq = [ p \in Procs |-> NoAgentPayRequest ]
    /\ apResp = NoAgentPayResponse
    /\ msCfg = DefaultMultiConfig
    /\ msReq = NoGateRequest
    /\ msResp = NoMultiResponse
    /\ schemes = {}
    /\ srLock = 0
    /\ rails = {}
    /\ regPc = [ p \in Procs |-> "idle" ]
    /\ regLoc = [ p \in Procs |-> NoRegLoc ]
    /\ regLast = NoRegRead
    /\ eCfg = DefaultEdgeConfig
    /\ eReq = NoEdgeRequest
    /\ eResp = NoEdgeResponse
    /\ ssObjs = [ o \in SessObjs |-> NoSession ]
    /\ ssMap = [ id \in SessStoreIDs |-> NoObj ]
    /\ ssPc = [ p \in Procs |-> "idle" ]
    /\ ssLoc = [ p \in Procs |-> NoSessPtr ]
    /\ mcpObjs = [ o \in McpObjs |-> NoMcpBudget ]
    /\ mcpMap = NoObj
    /\ mcpPc = [ p \in Procs |-> "idle" ]
    /\ mcpLoc = [ p \in Procs |-> NoMcpCall ]
    /\ bPosts = 0

SpecAIConc == InitAIConc /\ [][AIConcNext]_vars

\* Requests that the two agents' tasks start in one run.
MaxChargeRequests == 2
\* The total of the budgets of these runs.
ChargeTotal == 100
\* What the downstream handler writes in these runs.
ChargeOutput ==
    [ codes |-> << StatusOK >>, body |-> "result", cookies |-> <<>>,
      late |-> FALSE, deleted |-> {} ]

\* The gate before two agents: budgets are bought through POST /ai/budget
\* (every one gets generateBudgetID's id), a budget is created under an id
\* of the caller's that is not in use before the first request arrives,
\* budgets are deleted, and the agents' requests, none with an idempotency
\* key, overlap.
ChargeNext ==
    \E p \in Procs :
        \/ \E a \in AgentIDs : AIBudgetPost(p, TRUE, a, ChargeTotal)
        \/ EncodeRemaining(p)
        \/ EncodeSpent(p)
        \/ EncodeCount(p)
        \/ \E a \in AgentIDs :
              /\ aStarted = 0 /\ budgets["b1"] = NoBudget
              /\ StoreCreate(p, "b1", a, ChargeTotal)
        \/ \E id \in BudgetIDs : StoreDelete(p, id)
        \/ \E a \in AgentIDs :
              aStarted < MaxChargeRequests /\ AIFirstBegin(p, a, NoKey)
        \/ AIGetBudget(p)
        \/ AICheckBudget(p)
        \/ AIDeduct(p)
        \/ DeductSpent(p)
        \/ DeductCount(p)
        \/ AINext(p, ChargeOutput)
        \/ AIStore(p)

\* Pre-authorization is on, idempotency off.
InitCharge ==
    /\ gCfg = DefaultGateConfig
    /\ gReq = NoGateRequest
    /\ gResp = NoGateResponse
    /\ uCfg = {}
    /\ uReq = NoUniRequest
    /\ uResp = NoUniResponse
    /\ budgets = [ id \in BudgetIDs |-> NoBudget ]
    /\ byAgent = [ a \in AgentIDs |-> NoID ]
    /\ bLock = 0
    /\ pc = [ p \in Procs |-> "idle" ]
    /\ loc = [ p \in Procs |-> NoLocals ]
    /\ last = NoResult
    /\ sessions = [ id \in SessionIDs |-> NoSession ]
    /\ sNow = 0
    /\ sPc = [ p \in Procs |-> "idle" ]
    /\ sLoc = [ p \in Procs |-> NoSessLocals ]
    /\ sLog = <<>>
    /\ sLast = NoSessResponse
    /\ aCfg = PreAuthOnlyConfig
    /\ idem = [ k \in IdemKeys |-> NoRecord ]
    /\ aNow = 0
    /\ aStarted = 0
    /\ aLog = <<>>
    /\ mCfg = DefaultMeterConfig
    /\ metrics = <<>>
    /\ mLock = 0
    /\ mPc = [ p \in Procs |-> "idle" ]
    /\ mLoc = [ p \in Procs |-> NoMetric ]
    /\ mStarted = 0
    /\ mOrder = <<>>
    /\ mEvicted = <<>>
    /\ mDone = {}
    /\ mLast = NoReport
    /\ apCfg = [ PreAuthStore |-> FALSE ]
    /\ apReq = [ p \in Procs |-> NoAgentPayRequest ]
    /\ apResp = NoAgentPayResponse
    /\ msCfg = DefaultMultiConfig
    /\ msReq = NoGateRequest
    /\ msResp = NoMultiResponse
    /\ schemes = {}
    /\ srLock = 0
    /\ rails = {}
    /\ regPc = [ p \in Procs |-> "idle" ]
    /\ regLoc = [ p \in Procs |-> NoRegLoc ]
    /\ regLast = NoRegRead
    /\ eCfg = DefaultEdgeConfig
    /\ eReq = NoEdgeRequest
    /\ eResp = NoEdgeResponse
    /\ ssObjs = [ o \in SessObjs |-> NoSession ]
    /\ ssMap = [ id \in SessStoreIDs |-> NoObj ]
    /\ ssPc = [ p \in Procs |-> "idle" ]
    /\ ssLoc = [ p \in Procs |-> NoSessPtr ]
    /\ mcpObjs = [ o \in McpObjs |-> NoMcpBudget ]
    /\ mcpMap = NoObj
    /\ mcpPc = [ p \in Procs |-> "idle" ]
    /\ mcpLoc = [ p \in Procs |-> NoMcpCall ]
    /\ bPosts = 0

SpecCharge == InitCharge /\ [][ChargeNext]_vars

MeterNext ==
    \E p \in Procs :
        \/ MeterRequest(p)
        \/ \E status \in MeterStatuses : MeterHandler(p, status)
        \/ StoreRecordRequest(p)
        \/ RecordBegin(p)
        \/ RecordAppend(p)
        \/ GetMetrics(p)

InitMeter ==
    /\ gCfg = DefaultGateConfig
    /\ gReq = NoGateRequest
    /\ gResp = NoGateResponse
    /\ uCfg = {}
    /\ uReq = NoUniRequest
    /\ uResp = NoUniResponse
    /\ budgets = [ id \in BudgetIDs |-> NoBudget ]
    /\ byAgent = [ a \in AgentIDs |-> NoID ]
    /\ bLock = 0
    /\ pc = [ p \in Procs |-> "idle" ]
    /\ loc = [ p \in Procs |-> NoLocals ]
    /\ last = NoResult
    /\ sessions = [ id \in SessionIDs |-> NoSession ]
    /\ sNow = 0
    /\ sPc = [ p \in Procs |-> "idle" ]
    /\ sLoc = [ p \in Procs |-> NoSessLocals ]
    /\ sLog = <<>>
    /\ sLast = NoSessResponse
    /\ aCfg = DefaultAIConfig
    /\ idem = [ k \in IdemKeys |-> NoRecord ]
    /\ aNow = 0
    /\ aStarted = 0
    /\ aLog = <<>>
    /\ mCfg \in MeterConfigs
    /\ metrics = <<>>
    /\ mLock = 0
    /\ mPc = [ p \in Procs |-> "idle" ]
    /\ mLoc = [ p \in Procs |-> NoMetric ]
    /\ mStarted = 0
    /\ mOrder = <<>>
    /\ mEvicted = <<>>
    /\ mDone = {}
    /\ mLast = NoReport
    /\ apCfg = [ PreAuthStore |-> FALSE ]
    /\ apReq = [ p \in Procs |-> NoAgentPayRequest ]
    /\ apResp = NoAgentPayResponse
    /\ msCfg = DefaultMultiConfig
    /\ msReq = NoGateRequest
    /\ msResp = NoMultiResponse
    /\ schemes = {}
    /\ srLock = 0
    /\ rails = {}
    /\ regPc = [ p \in Procs |-> "idle" ]
    /\ regLoc = [ p \in Procs |-> NoRegLoc ]
    /\ regLast = NoRegRead
    /\ eCfg = DefaultEdgeConfig
    /\ eReq = NoEdgeRequest
    /\ eResp = NoEdgeResponse
    /\ ssObjs = [ o \in SessObjs |-> NoSession ]
    /\ ssMap = [ id \in SessStoreIDs |-> NoObj ]
    /\ ssPc = [ p \in Procs |-> "idle" ]
    /\ ssLoc = [ p \in Procs |-> NoSessPtr ]
    /\ mcpObjs = [ o \in McpObjs |-> NoMcpBudget ]
    /\ mcpMap = NoObj
    /\ mcpPc = [ p \in Procs |-> "idle" ]
    /\ mcpLoc = [ p \in Procs |-> NoMcpCall ]
    /\ bPosts = 0

SpecMeter == InitMeter /\ [][MeterNext]_vars

\* A budget is created for an agent, and a request is served.
\* Budgets are created and deleted and requests begin until the first
\* response is written; the requests that are under way together are
\* requests of AgentPayConcRequests.
AgentPayNext ==
    \E p \in Procs :
        \/ \E a \in OneAgent, t \in NonNegative(BudgetTotals) :
              ~apResp.served /\ StoreCreate(p, NoID, a, t)
        \/ ~apResp.served /\ StoreDelete(p, GeneratedBudgetID)
        \/ \E r \in AgentPayUnreadRequests :
              /\ ~apResp.served
              /\ \/ \A q \in Procs : pc[q] = "idle"
                 \/ /\ MadeTogether(r)
                    /\ \A q \in Procs :
                          pc[q] = "idle" \/ MadeTogether(apReq[q])
              /\ AIAgentPaymentMiddleware(p, r)
        \/ AgentPayCheck(p)
        \/ AgentPayDeduct(p)
        \/ DeductSpent(p)
        \/ DeductCount(p)
        \/ AgentPayGet(p)
        \/ AgentPayRespond(p)
        \/ \E uni \in AgentPayUniRequests :
              /\ pc[p] = "ap_fallback"
              /\ uni.path = apReq[p].uni.path
              /\ \E vr \in VerifyReplies(uni, uCfg) :
                    \E cr \in CaptureReplies(uni, uCfg, vr) :
                       AgentPayFallback(p, uni, vr, cr)

InitAgentPay ==
    /\ gCfg = DefaultGateConfig
    /\ gReq = NoGateRequest
    /\ gResp = NoGateResponse
    /\ uCfg \in UniConfigs
    /\ uReq = NoUniRequest
    /\ uResp = NoUniResponse
    /\ budgets = [ id \in BudgetIDs |-> NoBudget ]
    /\ byAgent = [ a \in AgentIDs |-> NoID ]
    /\ bLock = 0
    /\ pc = [ p \in Procs |-> "idle" ]
    /\ loc = [ p \in Procs |-> NoLocals ]
    /\ last = NoResult
    /\ sessions = [ id \in SessionIDs |-> NoSession ]
    /\ sNow = 0
    /\ sPc = [ p \in Procs |-> "idle" ]
    /\ sLoc = [ p \in Procs |-> NoSessLocals ]
    /\ sLog = <<>>
    /\ sLast = NoSessResponse
    /\ aCfg = DefaultAIConfig
    /\ idem = [ k \in IdemKeys |-> NoRecord ]
    /\ aNow = 0
    /\ aStarted = 0
    /\ aLog = <<>>
    /\ mCfg = DefaultMeterConfig
    /\ metrics = <<>>
    /\ mLock = 0
    /\ mPc = [ p \in Procs |-> "idle" ]
    /\ mLoc = [ p \in Procs |-> NoMetric ]
    /\ mStarted = 0
    /\ mOrder = <<>>
    /\ mEvicted = <<>>
    /\ mDone = {}
    /\ mLast = NoReport
    /\ apCfg \in [ PreAuthStore : BOOLEAN ]
    /\ apReq = [ p \in Procs |-> NoAgentPayRequest ]
    /\ apResp = NoAgentPayResponse
    /\ msCfg = DefaultMultiConfig
    /\ msReq = NoGateRequest
    /\ msResp = NoMultiResponse
    /\ schemes = {}
    /\ srLock = 0
    /\ rails = {}
    /\ regPc = [ p \in Procs |-> "idle" ]
    /\ regLoc = [ p \in Procs |-> NoRegLoc ]
    /\ regLast = NoRegRead
    /\ eCfg = DefaultEdgeConfig
    /\ eReq = NoEdgeRequest
    /\ eResp = NoEdgeResponse
    /\ ssObjs = [ o \in SessObjs |-> NoSession ]
    /\ ssMap = [ id \in SessStoreIDs |-> NoObj ]
    /\ ssPc = [ p \in Procs |-> "idle" ]
    /\ ssLoc = [ p \in Procs |-> NoSessPtr ]
    /\ mcpObjs = [ o \in McpObjs |-> NoMcpBudget ]
    /\ mcpMap = NoObj
    /\ mcpPc = [ p \in Procs |-> "idle" ]
    /\ mcpLoc = [ p \in Procs |-> NoMcpCall ]
    /\ bPosts = 0

SpecAgentPay == InitAgentPay /\ [][AgentPayNext]_vars

MultiNext == MultiServe

InitMulti ==
    /\ gCfg = DefaultGateConfig
    /\ gReq = NoGateRequest
    /\ gResp = NoGateResponse
    /\ uCfg = {}
    /\ uReq = NoUniRequest
    /\ uResp = NoUniResponse
    /\ budgets = [ id \in BudgetIDs |-> NoBudget ]
    /\ byAgent = [ a \in AgentIDs |-> NoID ]
    /\ bLock = 0
    /\ pc = [ p \in Procs |-> "idle" ]
    /\ loc = [ p \in Procs |-> NoLocals ]
    /\ last = NoResult
    /\ sessions = [ id \in SessionIDs |-> NoSession ]
    /\ sNow = 0
    /\ sPc = [ p \in Procs |-> "idle" ]
    /\ sLoc = [ p \in Procs |-> NoSessLocals ]
    /\ sLog = <<>>
    /\ sLast = NoSessResponse
    /\ aCfg = DefaultAIConfig
    /\ idem = [ k \in IdemKeys |-> NoRecord ]
    /\ aNow = 0
    /\ aStarted = 0
    /\ aLog = <<>>
    /\ mCfg = DefaultMeterConfig
    /\ metrics = <<>>
    /\ mLock = 0
    /\ mPc = [ p \in Procs |-> "idle" ]
    /\ mLoc = [ p \in Procs |-> NoMetric ]
    /\ mStarted = 0
    /\ mOrder = <<>>
    /\ mEvicted = <<>>
    /\ mDone = {}
    /\ mLast = NoReport
    /\ apCfg = [ PreAuthStore |-> FALSE ]
    /\ apReq = [ p \in Procs |-> NoAgentPayRequest ]
    /\ apResp = NoAgentPayResponse
    /\ msCfg \in MultiConfigs
    /\ msReq = NoGateRequest
    /\ msResp = NoMultiResponse
    /\ schemes = {}
    /\ srLock = 0
    /\ rails = {}
    /\ regPc = [ p \in Procs |-> "idle" ]
    /\ regLoc = [ p \in Procs |-> NoRegLoc ]
    /\ regLast = NoRegRead
    /\ eCfg = DefaultEdgeConfig
    /\ eReq = NoEdgeRequest
    /\ eResp = NoEdgeResponse
    /\ ssObjs = [ o \in SessObjs |-> NoSession ]
    /\ ssMap = [ id \in SessStoreIDs |-> NoObj ]
    /\ ssPc = [ p \in Procs |-> "idle" ]
    /\ ssLoc = [ p \in Procs |-> NoSessPtr ]
    /\ mcpObjs = [ o \in McpObjs |-> NoMcpBudget ]
    /\ mcpMap = NoObj
    /\ mcpPc = [ p \in Procs |-> "idle" ]
    /\ mcpLoc = [ p \in Procs |-> NoMcpCall ]
    /\ bPosts = 0

SpecMulti == InitMulti /\ [][MultiNext]_vars

\* Registrations and reads of both registries by concurrent tasks.
RegistryNext ==
    \E p \in Procs :
        \/ \E scheme \in Schemes : SchemeRegisterBegin(p, scheme)
        \/ SchemeRegisterEnd(p)
        \/ \E t \in RegSchemeTypes : SchemeRead(p, "Get", t)
        \/ SchemeRead(p, "List", "")
        \/ \E n \in RegNetworks : SchemeRead(p, "SupportsNetwork", n)
        \/ \E id \in RegRailIDs, d \in BOOLEAN : RailRegisterBegin(p, id, d)
        \/ RailRegisterEnd(p)
        \/ \E id \in RegRailIDs, seen \in SUBSET RegRailIDs, d \in BOOLEAN :
              RailRead(p, "Get", id, seen, d)
        \/ \E seen \in SUBSET RegRailIDs, d \in BOOLEAN :
              RailRead(p, "List", "", seen, d)

InitRegistry ==
    /\ gCfg = DefaultGateConfig
    /\ gReq = NoGateRequest
    /\ gResp = NoGateResponse
    /\ uCfg = {}
    /\ uReq = NoUniRequest
    /\ uResp = NoUniResponse
    /\ budgets = [ id \in BudgetIDs |-> NoBudget ]
    /\ byAgent = [ a \in AgentIDs |-> NoID ]
    /\ bLock = 0
    /\ pc = [ p \in Procs |-> "idle" ]
    /\ loc = [ p \in Procs |-> NoLocals ]
    /\ last = NoResult
    /\ sessions = [ id \in SessionIDs |-> NoSession ]
    /\ sNow = 0
    /\ sPc = [ p \in Procs |-> "idle" ]
    /\ sLoc = [ p \in Procs |-> NoSessLocals ]
    /\ sLog = <<>>
    /\ sLast = NoSessResponse
    /\ aCfg = DefaultAIConfig
    /\ idem = [ k \in IdemKeys |-> NoRecord ]
    /\ aNow = 0
    /\ aStarted = 0
    /\ aLog = <<>>
    /\ mCfg = DefaultMeterConfig
    /\ metrics = <<>>
    /\ mLock = 0
    /\ mPc = [ p \in Procs |-> "idle" ]
    /\ mLoc = [ p \in Procs |-> NoMetric ]
    /\ mStarted = 0
    /\ mOrder = <<>>
    /\ mEvicted = <<>>
    /\ mDone = {}
    /\ mLast = NoReport
    /\ apCfg = [ PreAuthStore |-> FALSE ]
    /\ apReq = [ p \in Procs |-> NoAgentPayRequest ]
    /\ apResp = NoAgentPayResponse
    /\ msCfg = DefaultMultiConfig
    /\ msReq = NoGateRequest
    /\ msResp = NoMultiResponse
    /\ schemes = {}
    /\ srLock = 0
    /\ rails = {}
    /\ regPc = [ p \in Procs |-> "idle" ]
    /\ regLoc = [ p \in Procs |-> NoRegLoc ]
    /\ regLast = NoRegRead
    /\ eCfg = DefaultEdgeConfig
    /\ eReq = NoEdgeRequest
    /\ eResp = NoEdgeResponse
    /\ ssObjs = [ o \in SessObjs |-> NoSession ]
    /\ ssMap = [ id \in SessStoreIDs |-> NoObj ]
    /\ ssPc = [ p \in Procs |-> "idle" ]
    /\ ssLoc = [ p \in Procs |-> NoSessPtr ]
    /\ mcpObjs = [ o \in McpObjs |-> NoMcpBudget ]
    /\ mcpMap = NoObj
    /\ mcpPc = [ p \in Procs |-> "idle" ]
    /\ mcpLoc = [ p \in Procs |-> NoMcpCall ]
    /\ bPosts = 0

SpecRegistry == InitRegistry /\ [][RegistryNext]_vars

WildcardNext ==
    \E pattern \in NetworkStrings, network \in NetworkStrings :
        WildcardCall(pattern, network)

InitWildcard ==
    /\ gCfg = DefaultGateConfig
    /\ gReq = NoGateRequest
    /\ gResp = NoGateResponse
    /\ uCfg = {}
    /\ uReq = NoUniRequest
    /\ uResp = NoUniResponse
    /\ budgets = [ id \in BudgetIDs |-> NoBudget ]
    /\ byAgent = [ a \in AgentIDs |-> NoID ]
    /\ bLock = 0
    /\ pc = [ p \in Procs |-> "idle" ]
    /\ loc = [ p \in Procs |-> NoLocals ]
    /\ last = NoResult
    /\ sessions = [ id \in SessionIDs |-> NoSession ]
    /\ sNow = 0
    /\ sPc = [ p \in Procs |-> "idle" ]
    /\ sLoc = [ p \in Procs |-> NoSessLocals ]
    /\ sLog = <<>>
    /\ sLast = NoSessResponse
    /\ aCfg = DefaultAIConfig
    /\ idem = [ k \in IdemKeys |-> NoRecord ]
    /\ aNow = 0
    /\ aStarted = 0
    /\ aLog = <<>>
    /\ mCfg = DefaultMeterConfig
    /\ metrics = <<>>
    /\ mLock = 0
    /\ mPc = [ p \in Procs |-> "idle" ]
    /\ mLoc = [ p \in Procs |-> NoMetric ]
    /\ mStarted = 0
    /\ mOrder = <<>>
    /\ mEvicted = <<>>
    /\ mDone = {}
    /\ mLast = NoReport
    /\ apCfg = [ PreAuthStore |-> FALSE ]
    /\ apReq = [ p \in Procs |-> NoAgentPayRequest ]
    /\ apResp = NoAgentPayResponse
    /\ msCfg = DefaultMultiConfig
    /\ msReq = NoGateRequest
    /\ msResp = NoMultiResponse
    /\ schemes = {}
    /\ srLock = 0
    /\ rails = {}
    /\ regPc = [ p \in Procs |-> "idle" ]
    /\ regLoc = [ p \in Procs |-> NoRegLoc ]
    /\ regLast = NoRegRead
    /\ eCfg = DefaultEdgeConfig
    /\ eReq = NoEdgeRequest
    /\ eResp = NoEdgeResponse
    /\ ssObjs = [ o \in SessObjs |-> NoSession ]
    /\ ssMap = [ id \in SessStoreIDs |-> NoObj ]
    /\ ssPc = [ p \in Procs |-> "idle" ]
    /\ ssLoc = [ p \in Procs |-> NoSessPtr ]
    /\ mcpObjs = [ o \in McpObjs |-> NoMcpBudget ]
    /\ mcpMap = NoObj
    /\ mcpPc = [ p \in Procs |-> "idle" ]
    /\ mcpLoc = [ p \in Procs |-> NoMcpCall ]
    /\ bPosts = 0

SpecWildcard == InitWildcard /\ [][WildcardNext]_vars

\* The edge handler, wrapping a handler or on its own, serves one request
\* under each configuration.
EdgeNext == EdgeWrapServe \/ EdgeServe

InitEdge ==
    /\ gCfg = DefaultGateConfig
    /\ gReq = NoGateRequest
    /\ gResp = NoGateResponse
    /\ uCfg = {}
    /\ uReq = NoUniRequest
    /\ uResp = NoUniResponse
    /\ budgets = [ id \in BudgetIDs |-> NoBudget ]
    /\ byAgent = [ a \in AgentIDs |-> NoID ]
    /\ bLock = 0
    /\ pc = [ p \in Procs |-> "idle" ]
    /\ loc = [ p \in Procs |-> NoLocals ]
    /\ last = NoResult
    /\ sessions = [ id \in SessionIDs |-> NoSession ]
    /\ sNow = 0
    /\ sPc = [ p \in Procs |-> "idle" ]
    /\ sLoc = [ p \in Procs |-> NoSessLocals ]
    /\ sLog = <<>>
    /\ sLast = NoSessResponse
    /\ aCfg = DefaultAIConfig
    /\ idem = [ k \in IdemKeys |-> NoRecord ]
    /\ aNow = 0
    /\ aStarted = 0
    /\ aLog = <<>>
    /\ mCfg = DefaultMeterConfig
    /\ metrics = <<>>
    /\ mLock = 0
    /\ mPc = [ p \in Procs |-> "idle" ]
    /\ mLoc = [ p \in Procs |-> NoMetric ]
    /\ mStarted = 0
    /\ mOrder = <<>>
    /\ mEvicted = <<>>
    /\ mDone = {}
    /\ mLast = NoReport
    /\ apCfg = [ PreAuthStore |-> FALSE ]
    /\ apReq = [ p \in Procs |-> NoAgentPayRequest ]
    /\ apResp = NoAgentPayResponse
    /\ msCfg = DefaultMultiConfig
    /\ msReq = NoGateRequest
    /\ msResp = NoMultiResponse
    /\ schemes = {}
    /\ srLock = 0
    /\ rails = {}
    /\ regPc = [ p \in Procs |-> "idle" ]
    /\ regLoc = [ p \in Procs |-> NoRegLoc ]
    /\ regLast = NoRegRead
    /\ eCfg \in EdgeConfigs
    /\ eReq = NoEdgeRequest
    /\ eResp = NoEdgeResponse
    /\ ssObjs = [ o \in SessObjs |-> NoSession ]
    /\ ssMap = [ id \in SessStoreIDs |-> NoObj ]
    /\ ssPc = [ p \in Procs |-> "idle" ]
    /\ ssLoc = [ p \in Procs |-> NoSessPtr ]
    /\ mcpObjs = [ o \in McpObjs |-> NoMcpBudget ]
    /\ mcpMap = NoObj
    /\ mcpPc = [ p \in Procs |-> "idle" ]
    /\ mcpLoc = [ p \in Procs |-> NoMcpCall ]
    /\ bPosts = 0

SpecEdge == InitEdge /\ [][EdgeNext]_vars

\* Sessions are created, under an id of the caller's or a generated one,
\* deleted and swept while requests that name them are under way.
SessStoreNext ==
    \/ \E p \in Procs :
          \/ \E id \in CallerSessionIDs \cup { NoID }, expires \in SessExpiries :
                StoreCreateSession(p, id, expires)
          \/ \E id \in SessStoreIDs : StoreDeleteSession(p, id)
          \/ StoreCleanExpired(p)
          \/ \E id \in SessStoreIDs : StoreGetSession(p, id)
          \/ StoreValidate(p)
          \/ StoreLoadUsed(p)
          \/ StoreStoreUsed(p)
          \/ StoreUpdateSession(p)
    \/ SessTick

InitSessStore ==
    /\ gCfg = DefaultGateConfig
    /\ gReq = NoGateRequest
    /\ gResp = NoGateResponse
    /\ uCfg = {}
    /\ uReq = NoUniRequest
    /\ uResp = NoUniResponse
    /\ budgets = [ id \in BudgetIDs |-> NoBudget ]
    /\ byAgent = [ a \in AgentIDs |-> NoID ]
    /\ bLock = 0
    /\ pc = [ p \in Procs |-> "idle" ]
    /\ loc = [ p \in Procs |-> NoLocals ]
    /\ last = NoResult
    /\ sessions = [ id \in SessionIDs |-> NoSession ]
    /\ sNow = 0
    /\ sPc = [ p \in Procs |-> "idle" ]
    /\ sLoc = [ p \in Procs |-> NoSessLocals ]
    /\ sLog = <<>>
    /\ sLast = NoSessResponse
    /\ aCfg = DefaultAIConfig
    /\ idem = [ k \in IdemKeys |-> NoRecord ]
    /\ aNow = 0
    /\ aStarted = 0
    /\ aLog = <<>>
    /\ mCfg = DefaultMeterConfig
    /\ metrics = <<>>
    /\ mLock = 0
    /\ mPc = [ p \in Procs |-> "idle" ]
    /\ mLoc = [ p \in Procs |-> NoMetric ]
    /\ mStarted = 0
    /\ mOrder = <<>>
    /\ mEvicted = <<>>
    /\ mDone = {}
    /\ mLast = NoReport
    /\ apCfg = [ PreAuthStore |-> FALSE ]
    /\ apReq = [ p \in Procs |-> NoAgentPayRequest ]
    /\ apResp = NoAgentPayResponse
    /\ msCfg = DefaultMultiConfig
    /\ msReq = NoGateRequest
    /\ msResp = NoMultiResponse
    /\ schemes = {}
    /\ srLock = 0
    /\ rails = {}
    /\ regPc = [ p \in Procs |-> "idle" ]
    /\ regLoc = [ p \in Procs |-> NoRegLoc ]
    /\ regLast = NoRegRead
    /\ eCfg = DefaultEdgeConfig
    /\ eReq = NoEdgeRequest
    /\ eResp = NoEdgeResponse
    /\ ssObjs = [ o \in SessObjs |-> NoSession ]
    /\ ssMap = [ id \in SessStoreIDs |-> NoObj ]
    /\ ssPc = [ p \in Procs |-> "idle" ]
    /\ ssLoc = [ p \in Procs |-> NoSessPtr ]
    /\ mcpObjs = [ o \in McpObjs |-> NoMcpBudget ]
    /\ mcpMap = NoObj
    /\ mcpPc = [ p \in Procs |-> "idle" ]
    /\ mcpLoc = [ p \in Procs |-> NoMcpCall ]
    /\ bPosts = 0

SpecSessStore == InitSessStore /\ [][SessStoreNext]_vars

\* Tool calls of two clients of the MCP server, in any interleaving.
McpNext ==
    \E p \in Procs :
        \/ \E amount \in McpAmounts \cup { McpDefaultBudget } :
              HandleBudgetCreate(p, amount)
        \/ \E amount \in McpAmounts : HandleBudgetTopup(p, amount)
        \/ HandleBudgetClose(p)
        \/ HandleCallLookup(p)
        \/ \E reply \in McpReplies, maxCost \in McpMaxCosts :
              HandleCallCheck(p, reply, maxCost)
        \/ HandleCallCharge(p)

InitMcp ==
    /\ gCfg = DefaultGateConfig
    /\ gReq = NoGateRequest
    /\ gResp = NoGateResponse
    /\ uCfg = {}
    /\ uReq = NoUniRequest
    /\ uResp = NoUniResponse
    /\ budgets = [ id \in BudgetIDs |-> NoBudget ]
    /\ byAgent = [ a \in AgentIDs |-> NoID ]
    /\ bLock = 0
    /\ pc = [ p \in Procs |-> "idle" ]
    /\ loc = [ p \in Procs |-> NoLocals ]
    /\ last = NoResult
    /\ sessions = [ id \in SessionIDs |-> NoSession ]
    /\ sNow = 0
    /\ sPc = [ p \in Procs |-> "idle" ]
    /\ sLoc = [ p \in Procs |-> NoSessLocals ]
    /\ sLog = <<>>
    /\ sLast = NoSessResponse
    /\ aCfg = DefaultAIConfig
    /\ idem = [ k \in IdemKeys |-> NoRecord ]
    /\ aNow = 0
    /\ aStarted = 0
    /\ aLog = <<>>
    /\ mCfg = DefaultMeterConfig
    /\ metrics = <<>>
    /\ mLock = 0
    /\ mPc = [ p \in Procs |-> "idle" ]
    /\ mLoc = [ p \in Procs |-> NoMetric ]
    /\ mStarted = 0
    /\ mOrder = <<>>
    /\ mEvicted = <<>>
    /\ mDone = {}
    /\ mLast = NoReport
    /\ apCfg = [ PreAuthStore |-> FALSE ]
    /\ apReq = [ p \in Procs |-> NoAgentPayRequest ]
    /\ apResp = NoAgentPayResponse
    /\ msCfg = DefaultMultiConfig
    /\ msReq = NoGateRequest
    /\ msResp = NoMultiResponse
    /\ schemes = {}
    /\ srLock = 0
    /\ rails = {}
    /\ regPc = [ p \in Procs |-> "idle" ]
    /\ regLoc = [ p \in Procs |-> NoRegLoc ]
    /\ regLast = NoRegRead
    /\ eCfg = DefaultEdgeConfig
    /\ eReq = NoEdgeRequest
    /\ eResp = NoEdgeResponse
    /\ ssObjs = [ o \in SessObjs |-> NoSession ]
    /\ ssMap = [ id \in SessStoreIDs |-> NoObj ]
    /\ ssPc = [ p \in Procs |-> "idle" ]
    /\ ssLoc = [ p \in Procs |-> NoSessPtr ]
    /\ mcpObjs = [ o \in McpObjs |-> NoMcpBudget ]
    /\ mcpMap = NoObj
    /\ mcpPc = [ p \in Procs |-> "idle" ]
    /\ mcpLoc = [ p \in Procs |-> NoMcpCall ]
    /\ bPosts = 0

SpecMcp == InitMcp /\ [][McpNext]_vars

----------------------------------------------------------------------------
(* C1: a request to a non-exempt path is forwarded to the downstream       *)
(* handler only if a payment token was extracted and the verifier accepted *)
(* it (valid, no error); in every other case the response is 402 and the   *)
(* downstream handler is not invoked.                                      *)
C1_ForwardOnlyVerified ==
    (gResp.served /\ ~isExemptPath(gReq.path, gCfg.ExemptPaths)) =>
        /\ gResp.forwarded <=>
              ( /\ gResp.token # EmptyString
                /\ gResp.verifierCalled
                /\ gResp.verdict.valid
                /\ ~gResp.verdict.err )
        /\ ~gResp.forwarded => gResp.status = StatusPaymentRequired

\* A non-exempt request with an accepted token was forwarded.
C1_Witness ==
    /\ gResp.served
    /\ ~isExemptPath(gReq.path, gCfg.ExemptPaths)
    /\ gResp.forwarded /\ gResp.status = StatusOK
    /\ gResp.token = <<"valid_", "x">>

(* C2: when a verification result requires capture, the request is         *)
(* forwarded only after the capture operation was invoked and reported     *)
(* success; a capture error or an unsuccessful capture yields 402 and the  *)
(* downstream handler is not invoked.                                      *)
C2_CaptureBeforeForward ==
    (uResp.served /\ uResp.verification.outcome = "ok"
         /\ uResp.verification.RequiresCapture) =>
        /\ uResp.forwarded =>
              /\ uResp.calls = <<"VerifyPayment", "CapturePayment", "next">>
              /\ uResp.capture.outcome = "ok" /\ uResp.capture.Success
        /\ (uResp.capture.outcome = "error"
              \/ (uResp.capture.outcome = "ok" /\ ~uResp.capture.Success)) =>
              /\ uResp.status = StatusPaymentRequired
              /\ ~uResp.forwarded

\* A crypto payment that was verified, captured and then forwarded.
C2_Witness ==
    /\ uResp.served /\ uResp.verification.RequiresCapture
    /\ uResp.capture.outcome = "ok" /\ uResp.capture.Success
    /\ uResp.forwarded

----------------------------------------------------------------------------
(* C3: whatever deducts and refunds were applied to a budget, in whatever    *)
(* sequence or interleaving of the tasks issuing them, and also in the      *)
(* middle of one, its remaining amount is never negative.                   *)
C3_RemainingNeverNegative ==
    \A id \in BudgetIDs : budgets[id].Remaining >= 0

(* C4: a deduct of more than the budget's remaining amount returns the      *)
(* error "insufficient budget" and changes nothing: remaining, spent and    *)
(* request count of the budget are what they were, and the task is done.    *)
C4_RejectedDeductChangesNothing ==
    [][ \A p \in Procs, id \in BudgetIDs, amount \in Amounts :
          ( /\ DeductBegin(p, id, amount)
            /\ budgets[id] # NoBudget
            /\ amount > budgets[id].Remaining )
          => ( /\ last'.op = "Deduct"
               /\ last'.err = "insufficient budget"
               /\ budgets' = budgets
               /\ pc'[p] = "idle" ) ]_vars

\* A budget of 100 of which 60 were deducted; the deduct that returned last
\* was rejected as insufficient and the budget still holds 40.
C4_Witness ==
    /\ last.op = "Deduct" /\ last.err = "insufficient budget"
    /\ budgets[GeneratedBudgetID].TotalBudget = 100
    /\ budgets[GeneratedBudgetID].Remaining = 40
    /\ budgets[GeneratedBudgetID].TotalSpent = 60
    /\ budgets[GeneratedBudgetID].RequestCount = 1
    /\ bLock = 0

(* C8: the values of remaining, spent and request count that a budget       *)
(* handler's GET put into its response are values the budget held together, *)
(* between two store operations, at some moment since the handler got the   *)
(* budget from the store: no response shows a deduct applied in part.       *)
C8_ReadersSeeWholeDeducts ==
    (last.op = "Get" /\ last.status = StatusOK /\ last.obs # <<>>)
        => last.obs \in last.cand

----------------------------------------------------------------------------
\* The request answered i-th was made while the session was unexpired, for a
\* path the session allows.
SessEligible(i) ==
    LET session == sessions["sess_1"]
    IN  /\ sLog[i].at <= session.ExpiresAt
        /\ \/ Len(session.AllowedEndpoints) = 0
           \/ \E k \in 1..Len(session.AllowedEndpoints) :
                 \/ sLog[i].path = session.AllowedEndpoints[k]
                 \/ matchesPattern(sLog[i].path, session.AllowedEndpoints[k])

\* How many of the requests answered before the i-th were forwarded.
SessForwardedBefore(i) ==
    Cardinality({ j \in 1..(i - 1) : sLog[j].status = StatusOK })

(* C5: of the successive requests carrying the id of a request-bounded      *)
(* session (made before it expires, for paths it allows), exactly those     *)
(* made while fewer than max were forwarded are answered 200, and every     *)
(* later one is answered 401 with the reason "session request limit         *)
(* exceeded": with max = 2 the answers are 200, 200, 401.                   *)
C5_FirstMaxRequestsForwarded ==
    sessions["sess_1"].SessionType = SessionTypeRequests =>
      \A i \in 1..Len(sLog) :
        SessEligible(i) =>
          IF SessForwardedBefore(i) < sessions["sess_1"].MaxRequests
          THEN sLog[i].status = StatusOK
          ELSE /\ sLog[i].status = StatusUnauthorized
               /\ sLog[i].message = "session request limit exceeded"

\* max = 2 and three successive requests were answered 200, 200, 401.
C5_Witness ==
    /\ sessions["sess_1"].SessionType = SessionTypeRequests
    /\ sessions["sess_1"].MaxRequests = 2
    /\ Len(sLog) = 3
    /\ \A i \in 1..3 : SessEligible(i)
    /\ sLog[1].status = StatusOK
    /\ sLog[2].status = StatusOK
    /\ sLog[3].status = StatusUnauthorized
    /\ sLog[3].message = "session request limit exceeded"

(* C6: a request-bounded session never counts more used requests than its   *)
(* max, whatever requests with its id are processed at the same time.       *)
C6_UsedAtMostMax ==
    \A id \in SessionIDs :
        sessions[id].SessionType = SessionTypeRequests
            => sessions[id].UsedRequests <= sessions[id].MaxRequests

(* C7: once the requests for a request-bounded session are all answered,    *)
(* its used count is the number of them that passed validation (those that  *)
(* were forwarded): no increment is lost.                                   *)
C7_NoIncrementLost ==
    ( /\ sessions["sess_1"].SessionType = SessionTypeRequests
      /\ \A p \in Procs : sPc[p] = "idle" )
    => sessions["sess_1"].UsedRequests
         = Cardinality({ i \in 1..Len(sLog) : sLog[i].status = StatusOK })

----------------------------------------------------------------------------
(* C9, C10: idempotent replay by AIFirstMiddleware *)

\* log entry i ran the downstream handler and stored its response under an
\* idempotency key, and the later entry j carried the same key no later than
\* the expiry of that record
ReplayOf(i, j) ==
    /\ i \in 1..Len(aLog) /\ j \in 1..Len(aLog) /\ i < j
    /\ aLog[i].stored
    /\ aLog[j].key = aLog[i].key
    /\ aLog[j].at <= aLog[i].expires

\* C9: two requests issued with the same idempotency key before the record
\* expires yield the same status, headers and body on the second request as
\* on the first.  The header X-Idempotent-Replay, by which the middleware
\* marks a replay, is left out of the comparison: what the formula asks is
\* that the replay repeats the status the first response was sent with, its
\* body, and every other header with the values that were sent.
C9_ReplayByteIdentical ==
    \A i, j \in 1..Len(aLog) :
        ReplayOf(i, j) =>
            /\ aLog[j].status = aLog[i].status
            /\ aLog[j].body = aLog[i].body
            /\ \A h \in HeaderNames \ { "X-Idempotent-Replay" } :
                  aLog[j].headers[h] = aLog[i].headers[h]

\* C10: of non-overlapping requests that carry the same idempotency key
\* within the validity of the record stored for it, the one that stored the
\* record is the only one to invoke the downstream handler; every later one
\* is answered from the cache and marked X-Idempotent-Replay: true.
C10_HandlerOncePerWindow ==
    \A i, j \in 1..Len(aLog) :
        ReplayOf(i, j) =>
            /\ aLog[i].handler /\ ~aLog[i].replay
            /\ aLog[j].replay /\ ~aLog[j].handler
            /\ aLog[j].headers["X-Idempotent-Replay"] = <<"true">>
            /\ Cardinality({ k \in i..j : aLog[k].key = aLog[i].key
                                           /\ aLog[k].handler }) = 1

\* a request of a paying agent was followed by two replays, the second of
\* them at the very time the record expires
C10_Witness ==
    /\ Len(aLog) = 3
    /\ ReplayOf(1, 2) /\ ReplayOf(1, 3)
    /\ aLog[1].agent # NoID
    /\ aLog[1].headers["X-Budget-Deducted"] = << ToString(AICost) >>
    /\ aLog[2].replay /\ aLog[3].replay
    /\ aLog[3].at = aLog[1].expires

----------------------------------------------------------------------------
(* C11: a replay has no side effects *)

\* C11: a request that carries an idempotency key with a cached record that
\* has not expired is answered from the cache in one step: the response is a
\* replay, no budget is looked up or deducted, the downstream handler is not
\* invoked and the record stays as it is.
C11_ReplayWithoutSideEffects ==
    [][ \A p \in Procs, a \in AgentIDs \cup { NoID }, k \in IdemKeys :
          ( /\ aCfg.EnableIdempotency
            /\ idem[k] # NoRecord /\ aNow <= idem[k].ExpiresAt
            /\ AIFirstBegin(p, a, k) )
          => /\ Len(aLog') = Len(aLog) + 1
             /\ aLog'[Len(aLog')].replay /\ ~aLog'[Len(aLog')].handler
             /\ aLog'[Len(aLog')].status = idem[k].StatusCode
             /\ aLog'[Len(aLog')].body = idem[k].Body
             /\ budgets' = budgets /\ byAgent' = byAgent /\ bLock' = bLock
             /\ idem' = idem
             /\ pc' = pc /\ loc' = loc ]_vars

\* an agent whose budget covers the cost has been answered from the cache,
\* and its budget is untouched
C11_Witness ==
    /\ Len(aLog) >= 2
    /\ aLog[Len(aLog)].replay
    /\ aLog[Len(aLog)].agent \in AgentIDs
    /\ byAgent[aLog[Len(aLog)].agent] = GeneratedBudgetID
    /\ budgets[GeneratedBudgetID].Remaining = 100
    /\ budgets[GeneratedBudgetID].TotalSpent = 0
    /\ budgets[GeneratedBudgetID].RequestCount = 0
    /\ \A q \in Procs : pc[q] = "idle"

----------------------------------------------------------------------------
(* C12, C13, C14: the metering store and MeteringMiddleware *)

\* C12: once more than capacity records have been inserted and no insertion
\* is under way, the store holds exactly capacity records: the capacity most
\* recently inserted ones, in the order of their insertion.
C12_KeepsMostRecentInOrder ==
    (mLock = 0 /\ Len(mOrder) > MeterMaxSize(mCfg.maxSize)) =>
        /\ Len(metrics) = MeterMaxSize(mCfg.maxSize)
        /\ metrics = LastN(mOrder, MeterMaxSize(mCfg.maxSize))

\* four records were inserted one after the other into a store of capacity
\* two, and a query reports the last two of them
C12_Witness ==
    /\ mCfg.maxSize = 2
    /\ Len(mOrder) = 4
    /\ \A i \in 1..4 : mOrder[i].req = i /\ mOrder[i].via = "store"
    /\ Len(metrics) = 2 /\ metrics[1].req = 3 /\ metrics[2].req = 4
    /\ mLast.TotalRequests = 2 /\ mLast.TotalRevenue = 2 + 3
    /\ mLast.appended = 4

\* C13: under every interleaving of record operations and queries the store
\* behaves as if they ran one at a time: what was appended is, in order, what
\* was evicted followed by what the store holds, so that no record is lost
\* or duplicated and none is evicted twice; the store never exceeds its
\* capacity; and a query sees the records the appends completed so far left.
C13_AppendsLinearizable ==
    /\ mOrder = mEvicted \o metrics
    /\ \A i, j \in 1..Len(mOrder) : mOrder[i].req = mOrder[j].req => i = j
    /\ Len(metrics) <= MeterMaxSize(mCfg.maxSize)
    /\ mLast # NoReport =>
          mLast.seen = LastN(SubSeq(mOrder, 1, mLast.appended),
                             MeterMaxSize(mCfg.maxSize))

\* one append has evicted the oldest record of a full store and holds the
\* mutex while another append waits for it, after a query saw the full store
C13_Witness ==
    /\ mCfg.maxSize = 2
    /\ Len(mEvicted) = 1 /\ Len(metrics) = 1
    /\ mPc[1] = "append" /\ mLock = 1
    /\ mPc[2] = "record"
    /\ mLast.TotalRequests = 2 /\ mLast.appended = 2

\* C14: with a store configured, every request MeteringMiddleware has
\* returned from has exactly one usage record among those appended, and the
\* record carries the status of its response; no request has two.
C14_OneRecordPerRequest ==
    mCfg.Store =>
        /\ \A d \in mDone :
              /\ Cardinality({ i \in 1..Len(mOrder) : mOrder[i].req = d.req }) = 1
              /\ \E i \in 1..Len(mOrder) : mOrder[i] = d
        /\ \A r \in 1..mStarted :
              Cardinality({ i \in 1..Len(mOrder) : mOrder[i].req = r }) <= 1

\* a request answered 200 and a request answered 500 have both returned and
\* each has its record
C14_Witness ==
    /\ mCfg.Store
    /\ \E d, e \in mDone :
          /\ d.ResponseCode = StatusOK
          /\ e.ResponseCode = StatusInternalServerError
          /\ \E i, j \in 1..Len(mOrder) : mOrder[i] = d /\ mOrder[j] = e
    /\ \A p \in Procs : mPc[p] = "idle"

----------------------------------------------------------------------------
(* C15: exempt paths of Middleware *)

\* the path is an exempt prefix of the configuration followed by a suffix
\* (which may be empty)
GatePathUnderExemptPrefix ==
    \E i \in 1..Len(gCfg.ExemptPaths) :
        \E suffix \in { <<>> } \cup { SubSeq(gReq.path, k, Len(gReq.path)) :
                                        k \in 1..Len(gReq.path) } :
            gReq.path = gCfg.ExemptPaths[i] \o suffix

\* C15: a request whose path is a configured exempt prefix followed by any
\* suffix is forwarded to the downstream handler whatever proof it carries
\* or lacks: no token is required and the verifier is not asked.
C15_ExemptPrefixForwarded ==
    (gResp.served /\ GatePathUnderExemptPrefix) =>
        /\ gResp.forwarded
        /\ gResp.status = StatusOK
        /\ ~gResp.verifierCalled

\* "/healthz" under the exempt prefix "/health" was forwarded although the
\* request carried no proof at all
C15_Witness ==
    /\ gResp.served /\ gResp.forwarded
    /\ gReq.path = <<"/health", "z">>
    /\ gCfg.ExemptPaths = << <<"/health">> >>
    /\ gReq.sig = EmptyString /\ gReq.xpay = EmptyString
    /\ gReq.auth = EmptyString /\ gReq.xtok = EmptyString
    /\ gReq.query = EmptyString

----------------------------------------------------------------------------
(* C16: nothing else runs for an exempt path *)

\* C16: when the request path matches an exempt prefix, the request is
\* forwarded to the downstream handler and nothing else is done: no proof is
\* extracted, no verifier or capture is called, no budget is looked up and
\* no budget is deducted.
C16_ExemptRunsNoOtherCheck ==
    (apResp.served /\ isExemptPath(apResp.req.uni.path, UniExemptPaths)) =>
        /\ apResp.forwarded
        /\ apResp.calls \in { <<"next">>, <<"unified", "next">> }
        /\ apResp.deducted = 0

----------------------------------------------------------------------------
(* C17: the precedence of the proof sources *)

\* the X-PAYMENT-PROOF header of the request decodes to a proof
UniProofHeaderDecodes ==
    uReq.xproof.present /\ uReq.xproof.base64 /\ uReq.xproof.json

\* the request is one UnifiedPaymentMiddleware has served by its payment
\* checks
UniServedNotExempt ==
    uResp.served /\ ~isExemptPath(uReq.path, UniExemptPaths)

C17_UnifiedPrecedence ==
    (UniServedNotExempt /\ (uReq.xproof.present => UniProofHeaderDecodes)) =>
        /\ uResp.proof =
              IF UniProofHeaderDecodes THEN uReq.xproof.proof
              ELSE IF uReq.sig # EmptyString
              THEN [ NoProof EXCEPT !.Rail = "evm-crypto", !.Payload = uReq.sig ]
              ELSE IF uReq.xpay # EmptyString
              THEN [ NoProof EXCEPT !.Rail = "evm-crypto", !.Payload = uReq.xpay ]
              ELSE IF uReq.stripePI # EmptyString
              THEN [ NoProof EXCEPT !.Rail = "stripe",
                                    !.PaymentIntentID = uReq.stripePI ]
              ELSE IF uReq.queryPI # EmptyString
              THEN [ NoProof EXCEPT !.Rail = "stripe",
                                    !.PaymentIntentID = uReq.queryPI ]
              ELSE NoProof
        /\ Cardinality({ i \in 1..Len(uResp.calls) :
                           uResp.calls[i] = "VerifyPayment" }) <= 1
        /\ (uResp.calls # <<>> /\ uResp.calls[1] = "VerifyPayment"
            /\ ~uResp.panicked /\ VerificationFailed(uResp.verification)) =>
              /\ uResp.status = StatusPaymentRequired
              /\ uResp.calls = <<"VerifyPayment", "sendPaymentOptions">>

C17_GatePrecedence ==
    (gResp.served /\ ~isExemptPath(gReq.path, gCfg.ExemptPaths)) =>
        LET accepted ==
              \E i \in 1..Len(gCfg.AcceptedMethods) :
                  HasPrefix(gReq.auth, gCfg.AcceptedMethods[i] \o <<" ">>)
            higher == gReq.sig # EmptyString \/ gReq.xpay # EmptyString
        IN  /\ gReq.sig # EmptyString => gResp.token = gReq.sig
            /\ (gReq.sig = EmptyString /\ gReq.xpay # EmptyString) =>
                  gResp.token = gReq.xpay
            /\ (~higher /\ accepted) =>
                  \E i \in 1..Len(gCfg.AcceptedMethods) :
                      gReq.auth = gCfg.AcceptedMethods[i] \o <<" ">> \o gResp.token
            /\ (~higher /\ ~accepted /\ gReq.xtok # EmptyString) =>
                  gResp.token = gReq.xtok
            /\ (~higher /\ ~accepted /\ gReq.xtok = EmptyString) =>
                  gResp.token = gReq.query

----------------------------------------------------------------------------
(* C18: a proof that does not parse *)

\* C18: a request whose X-PAYMENT-PROOF header is present but does not
\* decode gets the payment-required response and nothing else: no verifier
\* is invoked and no other proof source of the request is used instead.
C18_MalformedProofStops ==
    (UniServedNotExempt /\ uReq.xproof.present /\ ~UniProofHeaderDecodes) =>
        /\ uResp.status = StatusPaymentRequired
        /\ uResp.calls = <<"sendPaymentOptions">>
        /\ uResp.proof = NoProof

----------------------------------------------------------------------------
(* C19, C20: rejections *)

\* C19: a proof whose scheme is not registered, or whose network the
\* registered scheme does not support, is rejected with 402 and the
\* downstream handler is not invoked.
C19_UnsupportedSchemeOrNetworkRejected ==
    ( /\ msResp.served /\ ~isExemptPath(msReq.path, msCfg.ExemptPaths)
      /\ ~msResp.payload.err
      /\ \/ ~SchemeRegistered(msCfg.registry, msResp.payload.Scheme)
         \/ \E s \in SchemeGet(msCfg.registry, msResp.payload.Scheme) :
               ~SchemeSupportsNetwork(s, msResp.payload.Network) )
    => /\ msResp.status = StatusPaymentRequired
       /\ ~msResp.forwarded

\* C20: every request UnifiedPaymentMiddleware does not forward is answered
\* by the one payment-required response, status 402 written by
\* sendPaymentOptions, whatever made the gate reject it.
C20_RejectionsLookAlike ==
    (uResp.served /\ ~uResp.forwarded) =>
        /\ uResp.status = StatusPaymentRequired
        /\ uResp.calls # <<>>
        /\ uResp.calls[Len(uResp.calls)] = "sendPaymentOptions"

----------------------------------------------------------------------------
\* C21: whenever a request is denied because the agent's pre-authorized
\* remaining balance does not cover the cost of the request, the response is
\* 402 with the required and the available amount and no retry
\* recommendation, also when the balance ceased to cover the cost between
\* the gate's check and its deduction because of a concurrent request.
C21_ExhaustedBudgetIs402 ==
    \A i \in 1..Len(aLog) :
        aLog[i].cause \in { "budget.Remaining < cost", "insufficient budget" } =>
            /\ aLog[i].status = StatusPaymentRequired
            /\ aLog[i].code = ErrCodeInsufficientBudget
            /\ aLog[i].required # "" /\ aLog[i].remaining # ""
            /\ ~aLog[i].retryable
            /\ ~aLog[i].handler

----------------------------------------------------------------------------
\* C22: for every budget, remaining <= total holds in every reachable state,
\* whatever creates, deducts and refunds were applied.
C22_RemainingAtMostTotal ==
    \A id \in BudgetIDs : budgets[id].Remaining <= budgets[id].TotalBudget

\* C23: after a sequence of deducts and refunds on one budget in which every
\* refund returns an amount deducted before, remaining + spent = total.  The
\* formula asks more: the equation holds whenever no deduct or refund is
\* half-way, whatever the amounts of the refunds were, and whatever the
\* interleaving of the tasks that issued them.
C23_RemainingPlusSpentIsTotal ==
    bLock = 0 =>
        \A id \in BudgetIDs :
            budgets[id].Remaining + budgets[id].TotalSpent = budgets[id].TotalBudget

\* 60 were deducted and 60 refunded: the refund returned last, and the budget
\* of 100 is whole again after one counted request.
C23_Witness ==
    /\ last.op = "Refund" /\ last.err = ""
    /\ bLock = 0
    /\ budgets[GeneratedBudgetID].TotalBudget = 100
    /\ budgets[GeneratedBudgetID].Remaining = 100
    /\ budgets[GeneratedBudgetID].TotalSpent = 0
    /\ budgets[GeneratedBudgetID].RequestCount = 1

\* C24: after Delete(id), Get(id) reports that no budget exists, and so does
\* GetByAgentID for the agent of the budget that was deleted: the index
\* entry of that agent is gone, and no nil budget is returned without an
\* error.
C24_DeleteRemovesRecordAndIndex ==
    last.op = "Delete" =>
        /\ StoreGet(last.id).err # ""
        /\ last.agent # NoID =>
              /\ byAgent[last.agent] = NoID
              /\ StoreGetByAgentID(last.agent).err # ""

\* The budget "b1" of agent_1 was deleted while the store holds another
\* budget.
C24_Witness ==
    /\ last.op = "Delete" /\ last.id = "b1" /\ last.agent = "agent_1"
    /\ budgets[GeneratedBudgetID] # NoBudget
    /\ budgets["b1"] = NoBudget

----------------------------------------------------------------------------
\* The four checks of a session validation, as the claims name them, for the
\* session and the path of the request that task 1 has under way.
SessInactive == ~sessions[sLoc[1].sid].Active
SessExpired == sNow > sessions[sLoc[1].sid].ExpiresAt
SessExhausted ==
    /\ sessions[sLoc[1].sid].SessionType = SessionTypeRequests
    /\ sessions[sLoc[1].sid].UsedRequests >= sessions[sLoc[1].sid].MaxRequests
SessEndpointForbidden ==
    LET allowed == sessions[sLoc[1].sid].AllowedEndpoints
    IN  /\ allowed # <<>>
        /\ \A i \in 1..Len(allowed) :
              /\ sLoc[1].path # allowed[i]
              /\ ~matchesPattern(sLoc[1].path, allowed[i])

\* C25 as stated: for a request-bounded session, a validation performed when
\* used = max always fails with the exhaustion reason.
C25_AtMaxFailsExhausted ==
    [][ ( /\ SessValidate(1)
          /\ sessions[sLoc[1].sid].SessionType = SessionTypeRequests
          /\ sessions[sLoc[1].sid].UsedRequests = sessions[sLoc[1].sid].MaxRequests )
        => /\ sPc'[1] = "idle"
           /\ sLast'.message = "session request limit exceeded" ]_vars

\* C25 amended: for a request-bounded session that is active and not
\* expired, a validation performed when used = max fails with the exhaustion
\* reason; it fails as well when the session is inactive or expired, with
\* the reason of that earlier check.
C25_AtMaxFails ==
    [][ ( /\ SessValidate(1)
          /\ sessions[sLoc[1].sid].SessionType = SessionTypeRequests
          /\ sessions[sLoc[1].sid].UsedRequests = sessions[sLoc[1].sid].MaxRequests )
        => /\ sPc'[1] = "idle"
           /\ sLast'.status = StatusUnauthorized
           /\ sLast'.message =
                 IF SessInactive THEN "session is inactive"
                 ELSE IF SessExpired THEN "session has expired"
                 ELSE "session request limit exceeded" ]_vars

\* An active, unexpired session with used = max = 2 was validated for a path
\* it allows and rejected as exhausted.
C25_Witness ==
    /\ Len(sLog) = 1
    /\ sLog[1].message = "session request limit exceeded"
    /\ sessions["sess_1"].Active /\ sNow <= sessions["sess_1"].ExpiresAt
    /\ sessions["sess_1"].UsedRequests = 2 /\ sessions["sess_1"].MaxRequests = 2

\* C26: session validation checks the active flag, expiry (now > expiresAt),
\* exhaustion of the request count (used >= max, count-bounded sessions
\* only) and membership in the endpoint allow-list, in this order; the
\* reason returned is that of the first check that fails, and validation
\* succeeds only if all four pass.
C26_ChecksInOrder ==
    [][ SessValidate(1) =>
          IF SessInactive
          THEN sPc'[1] = "idle" /\ sLast'.message = "session is inactive"
          ELSE IF SessExpired
          THEN sPc'[1] = "idle" /\ sLast'.message = "session has expired"
          ELSE IF SessExhausted
          THEN /\ sPc'[1] = "idle"
               /\ sLast'.message = "session request limit exceeded"
          ELSE IF SessEndpointForbidden
          THEN /\ sPc'[1] = "idle"
               /\ sLast'.message = "endpoint not allowed for this session"
          ELSE sPc'[1] # "idle" /\ sLast' = sLast ]_vars

\* Every check would fail for the session (inactive, expired, exhausted,
\* path not allowed): the reason given is that of the first.
C26_Witness ==
    /\ Len(sLog) = 1 /\ sLog[1].message = "session is inactive"
    /\ sLog[1].path = <<"/admin">>
    /\ ~sessions["sess_1"].Active
    /\ sNow > sessions["sess_1"].ExpiresAt
    /\ sessions["sess_1"].SessionType = SessionTypeRequests
    /\ sessions["sess_1"].UsedRequests >= sessions["sess_1"].MaxRequests
    /\ sessions["sess_1"].AllowedEndpoints # <<>>

\* C27: every failure of a session validation (inactive, expired, exhausted,
\* endpoint not allowed) is answered with 401 and a reason string, never
\* with 402, and the downstream handler is not invoked (nor is the request
\* counted).
C27_ValidationFailureIs401 ==
    [][ ( /\ SessValidate(1)
          /\ SessInactive \/ SessExpired \/ SessExhausted \/ SessEndpointForbidden )
        => /\ sLast'.status = StatusUnauthorized
           /\ sLast'.status # StatusPaymentRequired
           /\ sLast'.error = "session_error"
           /\ sLast'.message # ""
           /\ ~sLast'.forwarded
           /\ sPc'[1] = "idle"
           /\ sessions' = sessions ]_vars

\* A request for /admin was rejected by a session that allows /api/* only.
C27_Witness ==
    /\ sLast.status = StatusUnauthorized /\ ~sLast.forwarded
    /\ sLast.message = "endpoint not allowed for this session"
    /\ Len(sLog) = 1 /\ sLog[1].path = <<"/admin">>
    /\ sessions["sess_1"].Active

\* C28: a request that refers to an unknown session id or to an unknown
\* budget id is answered with 404.
C28_UnknownIdIs404 ==
    /\ sLast.error = "invalid_session" => sLast.status = StatusNotFound
    /\ (last.op = "Get" /\ last.err = "budget not found") =>
          last.status = StatusNotFound

----------------------------------------------------------------------------
\* C29 as stated: the idempotency store's get(key) returns the cached record
\* only if it is present and now < expiresAt; at now = expiresAt and at any
\* later time it behaves as if the key were absent, to a caller of Get and
\* to a request with the key.
C29_GetOnlyBeforeExpiry ==
    [][ \A k \in IdemKeys :
          /\ IdemStoreGet(k) =>
                ( last'.obs # << NoRecord >>
                    <=> ( idem[k] # NoRecord /\ aNow < idem[k].ExpiresAt ) )
          /\ \A a \in AgentIDs \cup { NoID } :
                ( aCfg.EnableIdempotency /\ AIFirstBegin(1, a, k) ) =>
                    /\ IdemGet(k, aNow) # NoRecord
                          <=> ( idem[k] # NoRecord /\ aNow < idem[k].ExpiresAt )
                    /\ ( Len(aLog') = Len(aLog) + 1 /\ aLog'[Len(aLog')].replay )
                          <=> ( idem[k] # NoRecord
                                /\ aNow < idem[k].ExpiresAt ) ]_vars

\* C29 amended: get(key) returns the cached record only if it is present and
\* now <= expiresAt, the record itself and unchanged; at any time after
\* expiresAt it behaves as if the key were absent, to a caller of Get and to
\* a request with the key.  That holds of the records the middleware stored
\* and of those a caller handed to Set, with an expiry that has passed or
\* with none (the store then gives the record 24 hours).
C29_GetUntilExpiry ==
    [][ \A k \in IdemKeys :
          /\ IdemStoreGet(k) =>
                /\ last'.obs =
                      << IF idem[k] # NoRecord /\ aNow <= idem[k].ExpiresAt
                         THEN idem[k] ELSE NoRecord >>
                /\ idem' = idem
          /\ \A record \in IdemRecords :
                IdemStoreSet(k, record) =>
                    idem'[k].ExpiresAt =
                        IF record.ExpiresAt = ZeroTime
                        THEN aNow + DefaultIdempotencyTTL
                        ELSE record.ExpiresAt
          /\ \A a \in AgentIDs \cup { NoID } :
                ( aCfg.EnableIdempotency /\ AIFirstBegin(1, a, k) ) =>
                    /\ IdemGet(k, aNow) =
                          IF idem[k] # NoRecord /\ aNow <= idem[k].ExpiresAt
                          THEN idem[k] ELSE NoRecord
                    /\ ( Len(aLog') = Len(aLog) + 1 /\ aLog'[Len(aLog')].replay )
                          <=> ( idem[k] # NoRecord
                                /\ aNow <= idem[k].ExpiresAt )
                    /\ idem' = idem ]_vars

\* A request stored its response at time 0 for one hour; Get, called at
\* time 1, the time the record expires, returned the record.
C29_Witness ==
    /\ Len(aLog) >= 1
    /\ aLog[1].key \in IdemKeys
    /\ aLog[1].stored /\ aLog[1].at = 0 /\ aLog[1].expires = 1
    /\ aNow = 1
    /\ last.op = "IdemGet" /\ last.id = aLog[1].key
    /\ idem[aLog[1].key].ExpiresAt = 1
    /\ idem[aLog[1].key].StatusCode = aLog[1].status
    /\ last.obs = << idem[aLog[1].key] >>

\* C30: an idempotency record is never updated once written: after a record
\* has been stored for a key, no request changes the status, headers, body or
\* expiry stored under that key.  The formula asks it of the records that
\* have not expired only.
C30_RecordNeverRewritten ==
    [][ \A k \in IdemKeys :
          ( idem[k] # NoRecord /\ aNow <= idem[k].ExpiresAt ) =>
              idem'[k] = idem[k] ]_vars

----------------------------------------------------------------------------
\* C31: the scheme registry and the rail registry are safe for concurrent
\* reads while a registration takes place: every lookup, listing or
\* network-support query returns what it returns on the state before or on
\* the state after the registration, and the process is not stopped.
C31_RegistryReadsConsistent ==
    regLast.op \in { "Get", "List", "SupportsNetwork" } =>
        /\ ~regLast.fatal
        /\ regLast.res \in regLast.consistent

----------------------------------------------------------------------------
\* Does the network consist of the literal prefix of the pattern (all of it
\* but the trailing wildcard) and at least one more symbol?
ExtendsLiteralPrefix(pattern, network) ==
    /\ Len(network) >= Len(pattern)
    /\ \A i \in 1..(Len(pattern) - 1) : network[i] = pattern[i]

\* C32 as stated: a network pattern with a trailing wildcard matches exactly
\* the networks that extend its literal prefix.
C32_WildcardMatchesExtensions ==
    regLast.op = "isWildcardMatch" =>
        LET pattern == regLast.arg[1]
            network == regLast.arg[2]
        IN  ( Len(pattern) >= 1 /\ pattern[Len(pattern)] = "*" ) =>
                ( regLast.res = { TRUE } <=> ExtendsLiteralPrefix(pattern, network) )

\* C32 amended: a network pattern that has a trailing wildcard after a
\* literal prefix of at least one symbol matches exactly the networks that
\* extend that prefix: "fam:*" matches "fam:123" and "fam:abc" and matches
\* neither "other:123" nor "fam" nor "fam:"; the bare pattern "*" matches no
\* network.
C32_WildcardWithPrefixMatchesExtensions ==
    regLast.op = "isWildcardMatch" =>
        LET pattern == regLast.arg[1]
            network == regLast.arg[2]
            fam == <<"f", "a", "m", ":", "*">>
        IN  /\ ( Len(pattern) >= 2 /\ pattern[Len(pattern)] = "*" ) =>
                  ( regLast.res = { TRUE }
                      <=> ExtendsLiteralPrefix(pattern, network) )
            /\ pattern = <<"*">> => regLast.res = { FALSE }
            /\ ( pattern = fam /\ network = <<"f", "a", "m", ":", "1", "2", "3">> )
                  => regLast.res = { TRUE }
            /\ ( pattern = fam /\ network = <<"f", "a", "m", ":", "a", "b", "c">> )
                  => regLast.res = { TRUE }
            /\ ( pattern = fam
                 /\ network \in { <<"o", "t", "h", "e", "r", ":", "1", "2", "3">>,
                                  <<"f", "a", "m">>, <<"f", "a", "m", ":">> } )
                  => regLast.res = { FALSE }

\* "fam:*" was tried on "fam:123" and matched.
C32_Witness ==
    /\ regLast.op = "isWildcardMatch"
    /\ regLast.arg = << <<"f", "a", "m", ":", "*">>,
                        <<"f", "a", "m", ":", "1", "2", "3">> >>
    /\ regLast.res = { TRUE }

----------------------------------------------------------------------------
\* C33: every failure is scoped to the request: whatever the proof payload
\* (of any length and content) and whatever the verifier and the external
\* calls return, UnifiedPaymentMiddleware ends the request by forwarding it
\* or by the 402 response, and the verification does not abort abnormally.
C33_VerificationNeverAborts ==
    uResp.served =>
        /\ ~uResp.panicked
        /\ uResp.verification.outcome # "panic"
        /\ \/ uResp.forwarded /\ uResp.status = StatusOK
           \/ ~uResp.forwarded /\ uResp.status = StatusPaymentRequired

----------------------------------------------------------------------------
\* C34: whatever the interleaving of the concurrent requests that carry the
\* id of an agent with a pre-authorized budget, the costs of the requests
\* forwarded to the downstream handler add up to the amount deducted from
\* that budget (a forwarded request is charged once, a rejected one
\* nothing), and the amount never exceeds the budget's total.  Request by
\* request: a request that the gate forwards while the store holds a budget
\* of its agent has been charged its cost, and to a budget of that agent;
\* a request that is not forwarded has been charged nothing; no request is
\* charged to another agent's budget; and no budget is overdrawn.
C34_ForwardedEqualsDeducted ==
    /\ \A i \in 1..Len(aLog) :
          /\ (aLog[i].handler /\ aLog[i].had) =>
                (aLog[i].charged = AICost /\ aLog[i].from = aLog[i].agent)
          /\ ~aLog[i].handler => aLog[i].charged = 0
          /\ aLog[i].charged > 0 => aLog[i].from = aLog[i].agent
    /\ \A id \in BudgetIDs :
          budgets[id] # NoBudget =>
              /\ budgets[id].Remaining >= 0
              /\ budgets[id].TotalSpent <= budgets[id].TotalBudget

\* The part of C34 for AIAgentPaymentMiddleware: a request for which the
\* handler found the agent's budget sufficient and called Deduct is handed
\* to the downstream handler only as paid from that budget.
C34_AgentPayForwardedCharged ==
    ( /\ apResp.served /\ apResp.forwarded
      /\ \E i \in DOMAIN apResp.calls : apResp.calls[i] = "Deduct" )
    => ( /\ apResp.method = "pre-auth"
         /\ apResp.deducted = UniPricePerRequest )

----------------------------------------------------------------------------
\* C35: a budget created without an id of the caller's gets an id that
\* differs from the id of every budget in the store, so that such a create
\* never overwrites an existing budget: every budget that was in the store
\* is in it, unchanged, afterwards.
C35_GeneratedIdIsFresh ==
    [][\A a \in AgentIDs \cup { NoID }, t \in StoreTotals :
          StoreCreate(1, NoID, a, t) =>
              \A id \in BudgetIDs :
                  budgets[id] # NoBudget =>
                      /\ generateBudgetID # id
                      /\ budgets'[id] = budgets[id]]_vars

----------------------------------------------------------------------------
\* C36: a cached response is replayed only to a request the gate would have
\* admitted itself.  A replay goes to the agent whose request stored the
\* record, and, when pre-authorization is on and the caller names an agent
\* that has a budget, only while that budget covers the cost of the request:
\* presenting an existing idempotency key gives neither another caller nor
\* an agent whose budget is exhausted the cached paid response.
C36_ReplayOnlyToAdmitted ==
    /\ [](\A j \in 1..Len(aLog) :
            aLog[j].replay =>
                \A i \in 1..(j - 1) :
                    (aLog[i].stored /\ aLog[i].key = aLog[j].key) =>
                        aLog[i].agent = aLog[j].agent)
    /\ [][\A a \in AgentIDs, k \in IdemKeys :
            ( /\ AIFirstBegin(1, a, k)
              /\ Len(aLog') = Len(aLog) + 1
              /\ aLog'[Len(aLog')].replay
              /\ aCfg.EnablePreAuth
              /\ byAgent[a] # NoID
              /\ budgets[byAgent[a]] # NoBudget )
            => ~InsufficientBudget(budgets[byAgent[a]], AICost)]_vars

----------------------------------------------------------------------------
\* C37: Delete(id) leaves every other budget as it was: the record is
\* unchanged and Get returns it, and if GetByAgentID returned it for its
\* agent before the deletion it does so afterwards, also when that budget is
\* the newer one the agent of the deleted budget created after it.
C37_DeleteLeavesOthers ==
    [][\A id \in BudgetIDs :
          StoreDelete(1, id) =>
              \A o \in BudgetIDs \ { id } :
                  budgets[o] # NoBudget =>
                      /\ budgets'[o] = budgets[o]
                      /\ (budgets[o].AgentID # NoID
                            /\ byAgent[budgets[o].AgentID] = o)
                          => byAgent'[budgets[o].AgentID] = o]_vars

----------------------------------------------------------------------------
\* C38: the edge handler lets a request on a path that is not exempt through
\* to the wrapped handler only if the request carries a token that
\* VerifyToken accepts; without a token, or with a token VerifyToken
\* rejects, the request is answered 402 and is not forwarded.
C38_EdgeForwardsOnlyVerified ==
    LET h == NewEdgeHandler(eCfg)
        exempt == \E i \in 1..Len(eCfg.ExemptPaths) :
                      HasPrefix(eReq.path, eCfg.ExemptPaths[i])
        token == ExtractToken(eReq)
    IN  (eResp.served /\ eResp.handler = "WrapHandler" /\ ~exempt) =>
            IF token # EmptyString /\ VerifyToken(h, token)
            THEN eResp.forwarded
            ELSE /\ ~eResp.forwarded
                 /\ eResp.status = StatusPaymentRequired

----------------------------------------------------------------------------
\* C39: a session that was removed from the store, by DeleteSession or by
\* CleanExpired, is never put back by a request that was under way when it
\* was removed: when the request's UpdateSession runs and the store does not
\* hold the session the request has, the store does not hold it afterwards.
C39_RemovedSessionStaysRemoved ==
    [][\A p \in Procs :
          ( /\ StoreUpdateSession(p)
            /\ \A id \in SessStoreIDs : ssMap[id] # ssLoc[p].session )
          => \A id \in SessStoreIDs : ssMap'[id] # ssLoc[p].session]_vars

----------------------------------------------------------------------------
\* C40: in the MCP server, whatever the sequence and the interleaving of
\* x402_budget (create, topup, close) and x402_call, the Remaining of the
\* session budget is never negative: a call is charged only if its cost is
\* at most the Remaining at the moment the charge is applied.
C40_McpRemainingNeverNegative ==
    /\ [](mcpMap # NoObj => mcpObjs[mcpMap].Remaining >= 0)
    /\ [][\A p \in Procs :
            HandleCallCharge(p) =>
                mcpLoc[p].cost <= mcpObjs[mcpLoc[p].budget].Remaining]_vars

====
